---- MODULE Spec2Model ----
(***************************************************************************)
(* A model of the segments commit log (bytebeamio/segments):               *)
(*   src/src/segment.rs    the in-memory Segment                           *)
(*   src/src/disk/*.rs     Index, Segment file, Chunk and DiskHandler      *)
(*   src/src/lib.rs        CommitLog: append, retention and the reads      *)
(*                                                                         *)
(* A byte string (bytes::Bytes) is kept run-length encoded: a sequence of  *)
(* runs <<b, n>> (byte b repeated n > 0 times) in which adjacent runs have *)
(* different bytes.  Concatenation and slicing are computed on the runs,   *)
(* so an offset or a length that is off changes what a read returns.       *)
(***************************************************************************)
EXTENDS Integers, Sequences, FiniteSets, TLC

\* ------------------------------------------------------------------ bounds

\* Number of append / append_with_timestamp calls in one behaviour.
MaxAppends == 4
\* Largest timestamp the clock or a caller supplies.
MaxTs == 1
\* Largest length a reader asks read_range for.
MaxReadLen == 2
\* Number of read_range calls a reader makes.
MaxReadSteps == 4

\* lib.rs:56, the smallest max_segment_size CommitLog::new accepts.
MinSegmentSize == 1024

\* ------------------------------------------------------------- byte strings

Min(a, b) == IF a < b THEN a ELSE b
Max(a, b) == IF a < b THEN b ELSE a

\* The payloads callers append: the empty payload, one of half a segment and
\* one larger than a whole segment.
Payloads == { <<>>, << <<"a", 512>> >>, << <<"b", 1100>> >> }

RECURSIVE BytesLen(_)
BytesLen(bs) == IF bs = <<>> THEN 0 ELSE Head(bs)[2] + BytesLen(Tail(bs))

\* x followed by y.
BytesConcat(x, y) ==
    IF x = <<>> THEN y
    ELSE IF y = <<>> THEN x
    ELSE IF x[Len(x)][1] = y[1][1]
         THEN SubSeq(x, 1, Len(x) - 1)
              \o << <<y[1][1], x[Len(x)][2] + y[1][2]>> >>
              \o Tail(y)
         ELSE x \o y

\* bs without its first k bytes (k <= BytesLen(bs)).
RECURSIVE BytesDrop(_, _)
BytesDrop(bs, k) ==
    IF k = 0 \/ bs = <<>> THEN bs
    ELSE IF Head(bs)[2] <= k THEN BytesDrop(Tail(bs), k - Head(bs)[2])
    ELSE << <<Head(bs)[1], Head(bs)[2] - k>> >> \o Tail(bs)

\* The first k bytes of bs (k <= BytesLen(bs)).
RECURSIVE BytesTake(_, _)
BytesTake(bs, k) ==
    IF k = 0 \/ bs = <<>> THEN <<>>
    ELSE IF Head(bs)[2] <= k
         THEN <<Head(bs)>> \o BytesTake(Tail(bs), k - Head(bs)[2])
    ELSE << <<Head(bs)[1], k>> >>

\* Bytes::split_to / a positional read: len bytes of bs from offset.
BytesSlice(bs, offset, len) == BytesTake(BytesDrop(bs, offset), len)

\* ----------------------------------------------------------------- results

Ok(v) == [kind |-> "Ok", val |-> v]
NotFound == [kind |-> "NotFound"]
IoError == [kind |-> "IoError"]
Panic == [kind |-> "Panic"]

\* -------------------------------------------------- segment.rs (in memory)

\* Segment::with_capacity
SegWithCapacity == [data |-> <<>>, size |-> 0, start_time |-> 0, end_time |-> 0]

\* A push that does not count the bytes.
SegPushWithTimestamp_NoSize(seg, byte, timestamp) ==
    [data |-> Append(seg.data, <<byte, timestamp>>),
     size |-> seg.size,
     start_time |-> IF seg.start_time = 0 THEN timestamp ELSE seg.start_time,
     end_time |-> timestamp]

\* Segment::push_with_timestamp, and Segment::push with timestamp = now.
SegPushWithTimestamp(seg, byte, timestamp) ==
    [data |-> Append(seg.data, <<byte, timestamp>>),
     size |-> seg.size + BytesLen(byte),
     start_time |-> IF seg.start_time = 0 THEN timestamp ELSE seg.start_time,
     end_time |-> timestamp]

SegLen(seg) == Len(seg.data)

\* Segment::at_with_timestamp: the bounds check lets index = len through to the
\* vector indexing, which panics.
SegAtWithTimestamp(seg, index) ==
    IF index > SegLen(seg) THEN NotFound
    ELSE IF index >= Len(seg.data) THEN Panic
    ELSE Ok(seg.data[index + 1])

\* Segment::at
SegAt(seg, index) ==
    IF index > SegLen(seg) THEN NotFound
    ELSE IF index >= Len(seg.data) THEN Panic
    ELSE Ok(seg.data[index + 1][1])

\* Segment::readv_with_timestamps: [kind, out (the entries read), left]
SegReadvWithTimestamps(seg, index, len) ==
    IF index >= SegLen(seg) THEN [kind |-> "NotFound", out |-> <<>>, left |-> len]
    ELSE LET limit == Min(index + len, Len(seg.data))
             left == IF index + len > Len(seg.data)
                     THEN index + len - Len(seg.data) ELSE 0
         IN [kind |-> "Ok", out |-> SubSeq(seg.data, index + 1, limit), left |-> left]

\* The payloads of a sequence of entries.
PayloadsOf(entries) == [i \in 1..Len(entries) |-> entries[i][1]]

\* Segment::readv
SegReadv(seg, index, len) ==
    [SegReadvWithTimestamps(seg, index, len) EXCEPT !.out = PayloadsOf(@)]

\* ------------------------------------------------------ disk/index.rs, files

\* Option<u64>
None == [some |-> FALSE, id |-> 0]
Some(i) == [some |-> TRUE, id |-> i]

\* Sha256 over the bytes of a segment file, taken to be collision free.
Hash(bytes) == <<"sha256", bytes>>

\* A directory: index files and segment files by the number in their name, and
\* the numbers of files that have another extension.
EmptyDir == [index |-> <<>>, segment |-> <<>>, other |-> {}]

\* The entries Index::new writes: [timestamp, offset, len] with a running offset.
RECURSIVE IndexEntries(_, _)
IndexEntries(info, offset) ==
    IF info = <<>> THEN <<>>
    ELSE << <<Head(info)[2], offset, Head(info)[1]>> >>
         \o IndexEntries(Tail(info), offset + Head(info)[1])

\* Index::new: the contents of the index file.
IndexNew(hash, info) == [hash |-> hash, entries |-> IndexEntries(info, 0)]

\* Index::entries
IndexEntriesCount(idx) == Len(idx.entries)

\* Index::open: start_time and end_time of an index file.
IndexStartTime(idx) == IF idx.entries = <<>> THEN 0 ELSE idx.entries[1][1]
IndexEndTime(idx) == IF idx.entries = <<>> THEN 0 ELSE idx.entries[Len(idx.entries)][1]

\* Index::read_with_timestamps: a positional read of 24 bytes; past the end of
\* the file read_exact_at fails.
IndexReadWithTimestamps(idx, index) ==
    IF index < Len(idx.entries) THEN Ok(idx.entries[index + 1]) ELSE IoError

\* Index::readv_with_timestamps: [kind, out, left].  entries - index underflows
\* for index > entries: a panic (overflow check, or capacity overflow of the
\* buffer in a build without the check).
IndexReadvWithTimestamps(idx, index, len) ==
    LET entries == Len(idx.entries)
        limit == index + len
    IN IF limit > entries
       THEN IF index > entries
            THEN [kind |-> "Panic", out |-> <<>>, left |-> 0]
            ELSE [kind |-> "Ok", out |-> SubSeq(idx.entries, index + 1, entries),
                  left |-> limit - entries]
       ELSE [kind |-> "Ok", out |-> SubSeq(idx.entries, index + 1, limit), left |-> 0]

\* ------------------------------------------------------- disk/segment.rs

\* A read that starts at the beginning of the file whatever the offset.
DiskSegRead_FromStart(data, offset, len) ==
    IF len > BytesLen(data) THEN NotFound
    ELSE Ok(BytesSlice(data, 0, len))

\* Segment::read on a segment file holding data.
DiskSegRead(data, offset, len) ==
    IF offset + len > BytesLen(data) THEN NotFound
    ELSE Ok(BytesSlice(data, offset, len))

\* The loop of Segment::readv_with_timestamps: split buf by the lengths.
RECURSIVE SplitTo(_, _)
SplitTo(buf, offsets) ==
    IF offsets = <<>> THEN <<>>
    ELSE << <<BytesTake(buf, Head(offsets)[3]), Head(offsets)[1]>> >>
         \o SplitTo(BytesDrop(buf, Head(offsets)[3]), Tail(offsets))

RECURSIVE TotalLen(_)
TotalLen(offsets) ==
    IF offsets = <<>> THEN 0 ELSE Head(offsets)[3] + TotalLen(Tail(offsets))

\* Segment::readv_with_timestamps, after the read: buf is split by the lengths.
DiskSegSplit(buf, offsets) ==
    IF buf.kind = "Ok" THEN Ok(SplitTo(buf.val, offsets)) ELSE buf

\* Segment::readv_with_timestamps: one read from the first offset for the sum
\* of the lengths, then the split.
DiskSegReadvWithTimestamps(data, offsets) ==
    IF offsets = <<>> THEN Ok(<<>>)
    ELSE DiskSegSplit(DiskSegRead(data, offsets[1][2], TotalLen(offsets)), offsets)

\* ---------------------------------------------------------- disk/chunk.rs

\* The bytes Chunk::new writes to the segment file: the payloads, flattened.
RECURSIVE Flatten(_)
Flatten(entries) ==
    IF entries = <<>> THEN <<>>
    ELSE BytesConcat(Head(entries)[1], Flatten(Tail(entries)))

\* The (len, timestamp) pairs Chunk::new hands to Index::new.
Lens(entries) ==
    [i \in 1..Len(entries) |-> <<BytesLen(entries[i][1]), entries[i][2]>>]

\* Chunk::new, the call of Index::new: the index file of `bytes` is made in d.
ChunkNewIndex(d, index, entries, bytes, fault) ==
    IF fault = "index" \/ index \in DOMAIN d.index
    THEN [kind |-> "IoError", dir |-> d]
    ELSE [kind |-> "Ok",
          dir |-> [d EXCEPT !.index =
                      (index :> IndexNew(Hash(bytes), Lens(entries))) @@ @]]

\* A Chunk::new that makes the index file before the segment file.
ChunkNewSegment_IndexFirst(d, index, entries, bytes, fault) ==
    IF fault = "index" \/ index \in DOMAIN d.index
    THEN [kind |-> "IoError", dir |-> d]
    ELSE IF fault = "segment" \/ index \in DOMAIN d.segment
    THEN [kind |-> "IoError",
          dir |-> [d EXCEPT !.index =
                      (index :> IndexNew(Hash(bytes), Lens(entries))) @@ @]]
    ELSE [kind |-> "Ok",
          dir |-> [d EXCEPT !.index =
                      (index :> IndexNew(Hash(bytes), Lens(entries))) @@ @,
                            !.segment = (index :> bytes) @@ @]]

\* Chunk::new, the call of Segment::new: the segment file is made and written.
ChunkNewSegment(d, index, entries, bytes, fault) ==
    IF fault = "segment" \/ index \in DOMAIN d.segment
    THEN [kind |-> "IoError", dir |-> d]
    ELSE ChunkNewIndex([d EXCEPT !.segment = (index :> bytes) @@ @],
                       index, entries, bytes, fault)

\* Chunk::new on directory d.  Both files are made with create_new, the segment
\* file first; fault says where the file system fails ("none", "segment",
\* "index").  [kind, dir]
ChunkNew(d, index, entries, fault) ==
    ChunkNewSegment(d, index, entries, Flatten(entries), fault)

\* Chunk::verify
ChunkVerify(d, index) == d.index[index].hash = Hash(d.segment[index])

\* Chunk::entries
ChunkEntries(d, index) == IndexEntriesCount(d.index[index])

\* Chunk::read_with_timestamps, the read of the segment file for entry e.
ChunkReadBytes(b, e) ==
    IF b.kind # "Ok" THEN b ELSE Ok(<<b.val, e[1]>>)

\* Chunk::read_with_timestamps, after the read of the index file.
ChunkReadEntry(d, index, e) ==
    IF e.kind # "Ok" THEN e
    ELSE ChunkReadBytes(DiskSegRead(d.segment[index], e.val[2], e.val[3]), e.val)

\* Chunk::read_with_timestamps
ChunkReadWithTimestamps(d, index, i) ==
    ChunkReadEntry(d, index, IndexReadWithTimestamps(d.index[index], i))

\* Chunk::read, after the reads.
PayloadOf(r) == IF r.kind # "Ok" THEN r ELSE Ok(r.val[1])

\* Chunk::read
ChunkRead(d, index, i) == PayloadOf(ChunkReadWithTimestamps(d, index, i))

\* Chunk::readv_with_timestamps, after the read of the segment file.
ChunkReadvOut(o, r) ==
    IF r.kind # "Ok" THEN [kind |-> r.kind, out |-> <<>>, left |-> 0]
    ELSE [kind |-> "Ok", out |-> r.val, left |-> o.left]

\* Chunk::readv_with_timestamps, after the read of the index file.
ChunkReadvFrom(d, index, o) ==
    IF o.kind # "Ok" THEN o
    ELSE ChunkReadvOut(o, DiskSegReadvWithTimestamps(d.segment[index], o.out))

\* Chunk::readv_with_timestamps: [kind, out, left]
ChunkReadvWithTimestamps(d, index, i, len) ==
    ChunkReadvFrom(d, index, IndexReadvWithTimestamps(d.index[index], i, len))

\* ------------------------------------------------------------ disk/mod.rs

SetMax(S) == CHOOSE x \in S : \A y \in S : y <= x
SetMin(S) == CHOOSE x \in S : \A y \in S : x <= y

\* The numbers DiskHandler::new collects in `indices`: every file whose stem
\* parses as u64, whatever its extension.
DirIndices(d) == DOMAIN d.index \cup DOMAIN d.segment \cup d.other

\* A log that starts at 0 whatever the directory holds.
InMemoryHead_Zero(d) == 0

\* The id at which segments start in memory: one past the largest number found.
InMemoryHead(d) == IF DirIndices(d) = {} THEN 0 ELSE SetMax(DirIndices(d)) + 1

\* A DiskHandler::new that opens no chunk of the directory.
DiskHandlerNew_Forgets(d) ==
    [some |-> TRUE, chunks |-> {},
     head |-> IF DirIndices(d) = {} THEN 0 ELSE SetMin(DirIndices(d)),
     tail |-> IF DirIndices(d) = {} THEN 0 ELSE SetMax(DirIndices(d)),
     head_time |-> 0, tail_time |-> 0, invalid_files |-> {}]

\* DiskHandler::new.  chunks holds the ids of the opened chunks (their files
\* are in the directory and are never rewritten).  The time bounds start at 0
\* and are lowered only by a smaller u64, so they stay 0.
DiskHandlerNew(d) ==
    LET both == DOMAIN d.index \cap DOMAIN d.segment
    IN [some |-> TRUE,
        chunks |-> {i \in both : ChunkVerify(d, i)},
        head |-> IF DirIndices(d) = {} THEN 0 ELSE SetMin(DirIndices(d)),
        tail |-> IF DirIndices(d) = {} THEN 0 ELSE SetMax(DirIndices(d)),
        head_time |-> 0,
        tail_time |-> 0,
        invalid_files |->
            {<<"InvalidName", i>> : i \in d.other}
            \cup {<<"NoIndex", i>> : i \in DOMAIN d.segment \ DOMAIN d.index}
            \cup {<<"NoSegment", i>> : i \in DOMAIN d.index \ DOMAIN d.segment}
            \cup {<<"InvalidChecksum", i>> : i \in {j \in both : ~ChunkVerify(d, j)}}]

\* disk_handler: None
NoDiskHandler ==
    [some |-> FALSE, chunks |-> {}, head |-> 0, tail |-> 0,
     head_time |-> 0, tail_time |-> 0, invalid_files |-> {}]

\* DiskHandler::len
DiskLen(dh) == Cardinality(dh.chunks)

\* DiskHandler::insert, after Chunk::new returned c.
DiskInsertChunk(dh, index, c) ==
    IF c.kind # "Ok" THEN [kind |-> c.kind, dh |-> dh, dir |-> c.dir]
    ELSE [kind |-> "Ok",
          dh |-> [dh EXCEPT !.chunks = @ \cup {index},
                            !.tail = IF index > @ THEN index ELSE @],
          dir |-> c.dir]

\* DiskHandler::insert: [kind, dh, dir]
DiskInsert(dh, d, index, data, fault) ==
    DiskInsertChunk(dh, index, ChunkNew(d, index, data, fault))

\* DiskHandler::read_with_timestamps
DiskReadWithTimestamps(dh, d, index, offset) ==
    IF index \in dh.chunks THEN ChunkReadWithTimestamps(d, index, offset) ELSE NotFound

\* DiskHandler::read
DiskRead(dh, d, index, offset) ==
    IF index \in dh.chunks THEN ChunkRead(d, index, offset) ELSE NotFound

\* The inner loop of DiskHandler::readv, entered with segment_idx already
\* incremented: while the chunk is missing, step and give up past the tail.
RECURSIVE SkipMissing(_, _)
SkipMissing(dh, segment_idx) ==
    IF segment_idx \in dh.chunks THEN Some(segment_idx)
    ELSE IF segment_idx + 1 > dh.tail THEN None
    ELSE SkipMissing(dh, segment_idx + 1)

RECURSIVE DiskReadvLoop(_, _, _, _, _)

\* The `while left > 0` loop, after chunk n.id was read with result r.
DiskReadvMore(dh, d, left, out, n, r) ==
    IF r.kind # "Ok"
    THEN [kind |-> r.kind, out |-> out, left |-> left, next |-> None]
    ELSE IF r.left = 0
    THEN [kind |-> "Ok", out |-> out \o r.out, left |-> 0, next |-> n]
    ELSE DiskReadvLoop(dh, d, n.id, r.left, out \o r.out)

\* A loop that gives up at the end of the first chunk.
DiskReadvNext_GivesUp(dh, d, left, out, n) ==
    [kind |-> "Ok", out |-> out, left |-> left, next |-> None]

\* The `while left > 0` loop, after the search for the next chunk gave n.
DiskReadvNext(dh, d, left, out, n) ==
    IF ~n.some THEN [kind |-> "Ok", out |-> out, left |-> left, next |-> None]
    ELSE DiskReadvMore(dh, d, left, out, n, ChunkReadvWithTimestamps(d, n.id, 0, left))

\* The `while left > 0` loop of DiskHandler::readv_with_timestamps.
DiskReadvLoop(dh, d, segment_idx, left, out) ==
    DiskReadvNext(dh, d, left, out, SkipMissing(dh, segment_idx + 1))

\* A readv that names the id after the chunk it finished, on disk or not.
DiskReadvFirst_NoSkip(dh, d, index, offset, len, r) ==
    IF r.kind # "Ok"
    THEN [kind |-> r.kind, out |-> <<>>, left |-> len, next |-> None]
    ELSE IF r.left = 0
    THEN IF offset + len >= ChunkEntries(d, index)
         THEN [kind |-> "Ok", out |-> r.out, left |-> 0, next |-> Some(index + 1)]
         ELSE [kind |-> "Ok", out |-> r.out, left |-> 0, next |-> Some(index)]
    ELSE DiskReadvLoop(dh, d, index, r.left, r.out)

\* A readv that names the chunk it read although nothing is left in it.
DiskReadvFirst_StaysAtEnd(dh, d, index, offset, len, r) ==
    IF r.kind # "Ok"
    THEN [kind |-> r.kind, out |-> <<>>, left |-> len, next |-> None]
    ELSE IF r.left = 0
    THEN [kind |-> "Ok", out |-> r.out, left |-> 0, next |-> Some(index)]
    ELSE DiskReadvLoop(dh, d, index, r.left, r.out)

\* DiskHandler::readv_with_timestamps, after the first chunk was read with
\* result r.
DiskReadvFirst(dh, d, index, offset, len, r) ==
    IF r.kind # "Ok"
    THEN [kind |-> r.kind, out |-> <<>>, left |-> len, next |-> None]
    ELSE IF r.left = 0
    THEN IF offset + len >= ChunkEntries(d, index)
         THEN [kind |-> "Ok", out |-> r.out, left |-> 0,
               next |-> SkipMissing(dh, index + 1)]
         ELSE [kind |-> "Ok", out |-> r.out, left |-> 0, next |-> Some(index)]
    ELSE DiskReadvLoop(dh, d, index, r.left, r.out)

\* DiskHandler::readv_with_timestamps: [kind, out, left, next]
DiskReadvWithTimestamps(dh, d, index, offset, len) ==
    IF index \notin dh.chunks
    THEN [kind |-> "NotFound", out |-> <<>>, left |-> len, next |-> None]
    ELSE DiskReadvFirst(dh, d, index, offset, len,
                        ChunkReadvWithTimestamps(d, index, offset, len))

\* Vec<(Bytes, u64)> to Vec<Bytes> in a result of readv.
PayloadsOut(r) == [r EXCEPT !.out = PayloadsOf(@)]

\* DiskHandler::readv: the same control flow over payloads only.
DiskReadv(dh, d, index, offset, len) ==
    PayloadsOut(DiskReadvWithTimestamps(dh, d, index, offset, len))

\* ------------------------------------------------------------------ lib.rs

VARIABLES
    head,              \* CommitLog.head
    tail,              \* CommitLog.tail
    max_segment_size,  \* CommitLog.max_segment_size
    max_segments,      \* CommitLog.max_segments
    active_segment,    \* CommitLog.active_segment
    segments,          \* CommitLog.segments, front first
    segments_size,     \* CommitLog.segments_size
    disk_handler,      \* CommitLog.disk_handler
    dir,               \* the files of the directory given to new
    opened,            \* which directory new was given: "none", "empty", "old"
    clock,             \* the system clock, in ms
    status,            \* "running", or "panicked" once a call has panicked
    ret,               \* what the last append call returned, with its arguments
    hist,              \* every entry an append returned Ok for, with its position
    seals,             \* number of times the active segment was sealed
    evictions,         \* number of segments popped from the front of the queue
    failed,            \* some append returned an error
    nappends,          \* number of append calls made
    rd,                \* a reader following the cursor read_range returns
    before,            \* the chunks the log had when it was dropped and opened again
    inserted           \* the entries DiskHandler::insert was given and stored, by id

vars == <<head, tail, max_segment_size, max_segments, active_segment, segments,
          segments_size, disk_handler, dir, opened, clock, status, ret, hist, seals,
          evictions, failed, nappends, rd, before,
          inserted>>

\* The fields of the log that retention works on.
CurLog ==
    [head |-> head, tail |-> tail, active_segment |-> active_segment,
     segments |-> segments, segments_size |-> segments_size,
     disk_handler |-> disk_handler, dir |-> dir]

\* A retention that seals at every append.
SealNeeded_Always(size, max) == TRUE

\* A retention that seals only once the segment is larger than the limit.
SealNeeded_Gt(size, max) == size > max

\* apply_retention, the outer test: the active segment is full.
SealNeeded(size, max) == size >= max

\* A retention that evicts only once the queue is longer than the limit.
EvictNeeded_Gt(len, max) == len > max

\* A retention that evicts one segment early.
EvictNeeded_Early(len, max) == len + 1 >= max

\* apply_retention, the inner test: the queue of frozen segments is full.
EvictNeeded(len, max) == len >= max

\* An eviction that forgets to subtract the size of the segment it removes.
SizeAfterEvict_Keeps(total, removed) == total

\* apply_retention: segments_size after the front segment is removed.
SizeAfterEvict(total, removed) == total - removed

\* apply_retention: segments_size after the old active segment is pushed.
SizeAfterSeal(total, sealed) == total + sealed

\* An eviction that starts numbering the frozen segments again.
HeadAfterEvict_Resets(h) == 0

\* apply_retention: self.head += 1
HeadAfterEvict(h) == h + 1

\* A seal that leaves tail as it is.
TailAfterSeal_Stays(t) == t

\* apply_retention: self.tail += 1
TailAfterSeal(t) == t + 1

\* apply_retention, the replace and push_back: the active segment goes to the
\* back of the queue and a new one takes its place.
Seal(log) ==
    [log EXCEPT !.active_segment = SegWithCapacity,
                !.segments_size = SizeAfterSeal(@, log.active_segment.size),
                !.segments = Append(@, log.active_segment),
                !.tail = TailAfterSeal(@)]

\* A retention that seals although the insert failed.
AfterInsert_SealsAnyway(popped, ins) ==
    [kind |-> IF ins.kind # "Ok" THEN "IoError" ELSE "Ok",
     log |-> Seal([popped EXCEPT !.disk_handler = ins.dh, !.dir = ins.dir,
                                 !.head = IF ins.kind # "Ok" THEN @
                                          ELSE HeadAfterEvict(@)]),
     sealed |-> TRUE, evicted |-> TRUE]

\* apply_retention, after the insert returned ins: an error returns with the
\* segment popped and its size subtracted, and with head, tail and the active
\* segment as they were.
AfterInsert(popped, ins) ==
    IF ins.kind # "Ok"
    THEN [kind |-> "IoError",
          log |-> [popped EXCEPT !.disk_handler = ins.dh, !.dir = ins.dir],
          sealed |-> FALSE, evicted |-> TRUE]
    ELSE [kind |-> "Ok",
          log |-> Seal([popped EXCEPT !.disk_handler = ins.dh, !.dir = ins.dir,
                                      !.head = HeadAfterEvict(@)]),
          sealed |-> TRUE, evicted |-> TRUE]

\* apply_retention, the eviction: the front segment is popped, its size
\* subtracted and its entries given to the disk, if there is one.
Evict(log, removed, fault) ==
    AfterInsert([log EXCEPT !.segments = Tail(@),
                            !.segments_size = SizeAfterEvict(@, removed.size)],
                IF log.disk_handler.some
                THEN DiskInsert(log.disk_handler, log.dir, log.head,
                                removed.data, fault)
                ELSE [kind |-> "Ok", dh |-> log.disk_handler, dir |-> log.dir])

\* apply_retention: [kind, log, sealed, evicted].  pop_front().unwrap() panics
\* on an empty queue.
ApplyRetention(log, max_size, max_segs, fault) ==
    IF ~SealNeeded(log.active_segment.size, max_size)
    THEN [kind |-> "Ok", log |-> log, sealed |-> FALSE, evicted |-> FALSE]
    ELSE IF ~EvictNeeded(Len(log.segments), max_segs)
    THEN [kind |-> "Ok", log |-> Seal(log), sealed |-> TRUE, evicted |-> FALSE]
    ELSE IF log.segments = <<>>
    THEN [kind |-> "Panic", log |-> log, sealed |-> FALSE, evicted |-> FALSE]
    ELSE Evict(log, Head(log.segments), fault)

\* apply_retention is about to write a chunk: only then can the disk fail.
WillInsert ==
    /\ SealNeeded(active_segment.size, max_segment_size)
    /\ EvictNeeded(Len(segments), max_segments)
    /\ segments # <<>>
    /\ disk_handler.some

Faults == {"none", "segment", "index"}

\* The segment of the queue a read of segment index looks at.
FrozenAt(index) == index - head

\* CommitLog::read_with_timestamps.  The segment is asked for the entry at
\* `index`, the id of the segment; `offset` is used by the disk only.  Indexing
\* the queue past its end panics.
ReadWithTimestamps(index, offset) ==
    IF index > tail THEN NotFound
    ELSE IF index < head
    THEN IF disk_handler.some
         THEN DiskReadWithTimestamps(disk_handler, dir, index, offset)
         ELSE NotFound
    ELSE IF index < tail
    THEN IF FrozenAt(index) + 1 > Len(segments) THEN Panic
         ELSE SegAtWithTimestamp(segments[FrozenAt(index) + 1], index)
    ELSE SegAtWithTimestamp(active_segment, index)

\* A read that does not test the index against tail.
Read_NoTailCheck(index, offset) ==
    IF index < head
    THEN IF disk_handler.some
         THEN DiskRead(disk_handler, dir, index, offset)
         ELSE NotFound
    ELSE IF index < tail
    THEN IF FrozenAt(index) + 1 > Len(segments) THEN Panic
         ELSE SegAt(segments[FrozenAt(index) + 1], index)
    ELSE SegAt(active_segment, index)

\* CommitLog::read
Read(index, offset) ==
    IF index > tail THEN NotFound
    ELSE IF index < head
    THEN IF disk_handler.some
         THEN DiskRead(disk_handler, dir, index, offset)
         ELSE NotFound
    ELSE IF index < tail
    THEN IF FrozenAt(index) + 1 > Len(segments) THEN Panic
         ELSE SegAt(segments[FrozenAt(index) + 1], index)
    ELSE SegAt(active_segment, index)

\* An error of readv.
ReadvErr(k) == [kind |-> k, out |-> <<>>, remaining |-> 0, index |-> 0, offset |-> 0]

\* readv, after the disk returned d: what is left is read from the head of
\* memory unless the disk names a chunk, and from offset 0.
ReadvAfterDisk(d) ==
    IF d.kind # "Ok" THEN ReadvErr(d.kind)
    ELSE [kind |-> "Ok", out |-> d.out, remaining |-> d.left,
          index |-> IF d.next.some THEN d.next.id ELSE head,
          offset |-> 0]

\* readv, the part below head: [kind, out, remaining, index, offset]
ReadvDisk(index0, offset0, len) ==
    IF index0 >= head
    THEN [kind |-> "Ok", out |-> <<>>, remaining |-> len,
          index |-> index0, offset |-> offset0]
    ELSE IF ~disk_handler.some THEN ReadvErr("NotFound")
    ELSE ReadvAfterDisk(
            DiskReadvWithTimestamps(disk_handler, dir, index0, offset0, len))

\* A readv that forgets what the frozen segment read.
ReadvAfterFrozen_KeepsLen(s1, f) ==
    IF f.kind # "Ok" THEN ReadvErr(f.kind)
    ELSE [kind |-> "Ok", out |-> s1.out \o f.out, remaining |-> s1.remaining,
          index |-> s1.index + 1, offset |-> 0]

\* readv, after the frozen segment returned f: on to the next segment, at 0.
ReadvAfterFrozen(s1, f) ==
    IF f.kind # "Ok" THEN ReadvErr(f.kind)
    ELSE [kind |-> "Ok", out |-> s1.out \o f.out, remaining |-> f.left,
          index |-> s1.index + 1, offset |-> 0]

\* readv, the part in the queue: one segment is read, the one at `index` in
\* the queue (indexing past the end of the queue panics).
ReadvFrozen(s1) ==
    IF s1.kind # "Ok" \/ s1.remaining = 0 THEN s1
    ELSE IF s1.index < tail
    THEN IF s1.index + 1 > Len(segments) THEN ReadvErr("Panic")
         ELSE ReadvAfterFrozen(s1,
                SegReadvWithTimestamps(segments[s1.index + 1], s1.offset,
                                       s1.remaining))
    ELSE s1

\* readv, after the active segment returned a: index and offset are returned
\* as they were before the read.
ReadvAfterActive(s2, a) ==
    IF a.kind # "Ok" THEN ReadvErr(a.kind)
    ELSE [s2 EXCEPT !.out = @ \o a.out, !.remaining = a.left]

\* readv, the part in the active segment.
ReadvActive(s2) ==
    IF s2.kind # "Ok" \/ s2.remaining = 0 THEN s2
    ELSE ReadvAfterActive(s2,
            SegReadvWithTimestamps(active_segment, s2.offset, s2.remaining))

\* CommitLog::readv_with_timestamps: [kind, out, remaining, index, offset]
ReadvWithTimestamps(index0, offset0, len) ==
    IF index0 > tail THEN ReadvErr("NotFound")
    ELSE ReadvActive(ReadvFrozen(ReadvDisk(index0, offset0, len)))

\* CommitLog::readv: the same control flow over payloads only.
Readv(index0, offset0, len) == PayloadsOut(ReadvWithTimestamps(index0, offset0, len))

\* CommitLog::head_and_tail
HeadAndTail == <<IF disk_handler.some THEN disk_handler.head ELSE head, tail>>

\* CommitLog::disk_len
DiskLenOfLog == IF disk_handler.some THEN Ok(DiskLen(disk_handler)) ELSE [kind |-> "Other"]

\* --------------------------------------------------------- initial states

\* Largest max_segments a log is made with.
MaxMemorySegments == 2

\* A directory left by an earlier run, since damaged: the index file of chunk 0
\* without its segment file, chunk 1 intact, and chunk 2 with a segment file
\* that does not match the hash in its index file.
OldEntries == << << << <<"a", 512>> >>, 1 >>, << << <<"b", 1100>> >>, 1 >> >>

OldDir ==
    LET d1 == ChunkNew(EmptyDir, 1, OldEntries, "none").dir
        d2 == ChunkNew(d1, 2, OldEntries, "none").dir
    IN [d2 EXCEPT !.segment = (2 :> << <<"a", 512>> >>) @@ @,
                  !.index = (0 :> IndexNew(Hash(<<>>), <<>>)) @@ @]

\* The arguments of CommitLog::new: no directory, an empty one, an old one.
Dirs == {"none", "empty", "old"}

\* CommitLog::new, for a max_segment_size it accepts.
Init ==
    /\ max_segment_size = MinSegmentSize
    /\ max_segments \in 0..MaxMemorySegments
    /\ \E which \in Dirs :
          /\ opened = which
          /\ dir = IF which = "old" THEN OldDir ELSE EmptyDir
          /\ disk_handler = IF which = "none" THEN NoDiskHandler
                            ELSE DiskHandlerNew(dir)
          /\ head = IF which = "none" THEN 0 ELSE InMemoryHead(dir)
    /\ tail = head
    /\ active_segment = SegWithCapacity
    /\ segments = <<>>
    /\ segments_size = 0
    /\ clock = 1
    /\ status = "running"
    /\ ret = [kind |-> "None"]
    /\ hist = <<>>
    /\ seals = 0
    /\ evictions = 0
    /\ failed = FALSE
    /\ nappends = 0
    /\ rd = [phase |-> "idle", index |-> 0, offset |-> 0, got |-> <<>>, steps |-> 0,
             last |-> "None"]
    /\ before = [some |-> FALSE, chunks |-> {}, nappends |-> 0]
    /\ inserted = <<>>

\* ----------------------------------------------------------------- actions

\* append_with_timestamp after apply_retention returned r: on Ok the push and
\* the return of (tail, len); an error is returned as it is (the `?`).
AfterRetention(bytes, timestamp, r, pushed) ==
    /\ nappends' = nappends + 1
    /\ status' = IF r.kind = "Panic" THEN "panicked" ELSE status
    /\ head' = r.log.head
    /\ tail' = r.log.tail
    /\ segments' = r.log.segments
    /\ segments_size' = r.log.segments_size
    /\ disk_handler' = r.log.disk_handler
    /\ dir' = r.log.dir
    /\ active_segment' = IF r.kind = "Ok" THEN pushed ELSE r.log.active_segment
    /\ ret' = IF r.kind = "Ok"
              THEN [kind |-> "Ok", id |-> r.log.tail, count |-> SegLen(pushed),
                    bytes |-> bytes, timestamp |-> timestamp,
                    sealed |-> r.sealed, evicted |-> r.evicted]
              ELSE [kind |-> r.kind]
    /\ hist' = IF r.kind = "Ok"
               THEN Append(hist, [id |-> r.log.tail, k |-> SegLen(pushed) - 1,
                                  bytes |-> bytes, timestamp |-> timestamp])
               ELSE hist
    /\ seals' = IF r.sealed THEN seals + 1 ELSE seals
    /\ evictions' = IF r.evicted THEN evictions + 1 ELSE evictions
    /\ failed' = (failed \/ r.kind # "Ok")
    /\ inserted' = IF r.kind = "Ok" /\ r.evicted /\ disk_handler.some
                   THEN (head :> Head(segments).data) @@ inserted
                   ELSE inserted
    /\ UNCHANGED <<max_segment_size, max_segments, opened, rd, before>>

\* The push of append_with_timestamp, on the log retention left.
PushAfter(bytes, timestamp, r) ==
    AfterRetention(bytes, timestamp, r,
                   SegPushWithTimestamp(r.log.active_segment, bytes, timestamp))

\* CommitLog::append_with_timestamp(bytes, timestamp), and the body of
\* CommitLog::append with timestamp = now: retention, then the push.
DoAppend(bytes, timestamp, fault) ==
    /\ status = "running"
    /\ rd.phase = "idle"
    /\ nappends < MaxAppends
    /\ fault # "none" => WillInsert
    /\ PushAfter(bytes, timestamp,
                 ApplyRetention(CurLog, max_segment_size, max_segments, fault))

\* CommitLog::append: the timestamp is the system clock, which does not go back.
AppendBytes ==
    \E bytes \in Payloads, now \in {clock, clock + 1}, fault \in Faults :
        /\ now <= MaxTs
        /\ DoAppend(bytes, now, fault)
        /\ clock' = now

\* CommitLog::append_with_timestamp
AppendWithTimestamp ==
    \E bytes \in Payloads, timestamp \in 0..MaxTs, fault \in Faults :
        /\ DoAppend(bytes, timestamp, fault)
        /\ UNCHANGED clock

Next == AppendBytes \/ AppendWithTimestamp

Spec == Init /\ [][Next]_vars

\* ------------------------------------------------------------------ readers

\* The entries a chunk holds, decoded from its two files.
ChunkStored(d, index) ==
    [k \in 1..Len(d.index[index].entries) |->
        BytesSlice(d.segment[index], d.index[index].entries[k][2],
                   d.index[index].entries[k][3])]

RECURSIVE DiskStored(_, _)
DiskStored(d, ids) ==
    IF ids = {} THEN <<>>
    ELSE ChunkStored(d, SetMin(ids)) \o DiskStored(d, ids \ {SetMin(ids)})

RECURSIVE FrozenStored(_)
FrozenStored(segs) ==
    IF segs = <<>> THEN <<>>
    ELSE PayloadsOf(Head(segs).data) \o FrozenStored(Tail(segs))

\* Every payload the log holds, oldest first: the chunks by id, the frozen
\* segments front to back, the active segment.
AllStored ==
    DiskStored(dir, disk_handler.chunks) \o FrozenStored(segments)
        \o PayloadsOf(active_segment.data)

\* The oldest position that holds an entry.
OldestStored ==
    IF disk_handler.chunks # {} THEN <<SetMin(disk_handler.chunks), 0>>
    ELSE <<head, 0>>

\* The log holds entries on disk, in frozen segments and in the active segment.
AllTiers ==
    disk_handler.chunks # {} /\ segments # <<>> /\ active_segment.data # <<>>

\* A reader starts at the oldest stored position of a log that holds entries
\* in every tier (test::read_from_everywhere).
StartReader ==
    /\ status = "running"
    /\ rd.phase = "idle"
    /\ AllTiers
    /\ rd' = [phase |-> "reading", index |-> OldestStored[1],
              offset |-> OldestStored[2], got |-> <<>>, steps |-> 0, last |-> "None"]
    /\ UNCHANGED <<head, tail, max_segment_size, max_segments, active_segment,
                   segments, segments_size, disk_handler, dir, opened, clock,
                   status, ret, hist, seals, evictions, failed, nappends, before,
                       inserted>>

\* The reader after readv returned r: it keeps what it is given and the
\* cursor; an error or a panic ends the reading.
ReaderTakes(r) ==
    rd' = IF r.kind = "Ok"
          THEN [phase |-> "reading", index |-> r.index, offset |-> r.offset,
                got |-> rd.got \o r.out, steps |-> rd.steps + 1,
                last |-> IF r.out = <<>> THEN "Empty" ELSE "Ok"]
          ELSE [rd EXCEPT !.phase = "stopped", !.steps = @ + 1, !.last = r.kind]

\* The reader calls readv(index, offset, len) with the cursor the call before
\* returned.
ReaderStep ==
    \E len \in 1..MaxReadLen :
        /\ rd.phase = "reading"
        /\ rd.steps < MaxReadSteps
        /\ ReaderTakes(Readv(rd.index, rd.offset, len))
        /\ UNCHANGED <<head, tail, max_segment_size, max_segments, active_segment,
                       segments, segments_size, disk_handler, dir, opened, clock,
                       status, ret, hist, seals, evictions, failed, nappends, before,
                       inserted>>

NextCursor == AppendBytes \/ AppendWithTimestamp \/ StartReader \/ ReaderStep

\* Appends, then a reader that follows the cursor.
SpecCursor == Init /\ [][NextCursor]_vars

IsPrefix(x, y) == Len(x) <= Len(y) /\ x = SubSeq(y, 1, Len(x))

\* ------------------------------------------------------------------ claims

RECURSIVE SumSizes(_)
SumSizes(segs) == IF segs = <<>> THEN 0 ELSE Head(segs).size + SumSizes(Tail(segs))

\* C1: when append returns (id, count), a read of (id, count - 1) right after
\* it returns the payload appended, and read_with_timestamps the payload with
\* its timestamp.
C1_AppendReadRoundTrip ==
    ret.kind = "Ok" =>
        /\ Read(ret.id, ret.count - 1) = Ok(ret.bytes)
        /\ ReadWithTimestamps(ret.id, ret.count - 1) = Ok(<<ret.bytes, ret.timestamp>>)

\* C3: with a disk, every entry once appended at (id, k) is returned by
\* read_with_timestamps(id, k) in every later state, in whichever tier the
\* segment is.
C3_ReadContinuity ==
    disk_handler.some =>
        \A i \in 1..Len(hist) :
            ReadWithTimestamps(hist[i].id, hist[i].k)
                = Ok(<<hist[i].bytes, hist[i].timestamp>>)

\* C4: the queue of frozen segments holds tail - head segments.
C4_FrozenLenIsTailMinusHead == Len(segments) = tail - head

\* C5: head <= tail in every state, for every directory the log is opened on.
C5_HeadLeTail == head <= tail

C5_Witness == opened = "old" /\ evictions > 0 /\ head > InMemoryHead(OldDir)

\* C6: segments_size is the sum of the sizes of the frozen segments.
C6_SegmentsSizeIsSum == segments_size = SumSizes(segments)

C6_Witness == evictions > 0 /\ segments # <<>> /\ segments_size > 0

\* C7: the queue of frozen segments never holds more than max_segments.
C7_FrozenAtMostMax == Len(segments) <= max_segments

C7_Witness ==
    max_segments >= 1 /\ evictions > 0 /\ ret.kind = "Ok"
    /\ Len(segments) = max_segments

\* C8: after an append of a payload of length L the active segment is smaller
\* than max_segment_size + L, and no frozen segment exceeds max_segment_size by
\* more than its last payload.
C8_OverflowAllowance ==
    /\ ret.kind = "Ok" =>
          active_segment.size < max_segment_size + BytesLen(ret.bytes)
    /\ \A i \in 1..Len(segments) :
          /\ segments[i].data # <<>>
          /\ segments[i].size
                - BytesLen(segments[i].data[Len(segments[i].data)][1])
             < max_segment_size

C8_Witness ==
    /\ ret.kind = "Ok"
    /\ active_segment.size > max_segment_size
    /\ Len(active_segment.data) > 1
    /\ \E i \in 1..Len(segments) : segments[i].size > max_segment_size

\* C9: every chunk on disk has an id below head, and the ids of the chunks, of
\* the frozen segments (head, head + 1, ...) and of the active segment (tail)
\* are pairwise distinct, also on a directory that held files before.
C9_DiskIdsBelowHead ==
    /\ \A i \in disk_handler.chunks : i < head
    /\ head + Len(segments) <= tail

C9_Witness ==
    /\ opened = "old"
    /\ \E i \in disk_handler.chunks : i >= InMemoryHead(OldDir)
    /\ 1 \in disk_handler.chunks
    /\ segments # <<>>

\* C10: on a log that starts empty with max_segments = M >= 1, after appends
\* that all succeeded and sealed k times, the queue holds min(k, M) segments,
\* max(0, k - M) segments were evicted, with a disk disk_len is max(0, k - M)
\* and head_and_tail is (0, k); and an append evicts only when it seals with
\* the queue at M.
C10_EvictionLaw ==
    (opened # "old" /\ max_segments >= 1 /\ ~failed) =>
        /\ Len(segments) = Min(seals, max_segments)
        /\ evictions = Max(0, seals - max_segments)
        /\ disk_handler.some =>
              /\ DiskLenOfLog = Ok(Max(0, seals - max_segments))
              /\ HeadAndTail = <<0, seals>>
        /\ (ret.kind = "Ok" /\ ret.evicted) =>
              ret.sealed /\ Len(segments) = max_segments

C10_Witness ==
    /\ opened = "empty" /\ max_segments = 2 /\ ~failed
    /\ seals = 3 /\ evictions = 1 /\ ret.kind = "Ok" /\ ret.evicted

\* C2: on a log that holds entries on disk, in frozen segments and in the
\* active segment, a reader that starts at the oldest stored position and
\* passes each returned cursor to the next read_range (len >= 1) is given the
\* stored payloads once each and in append order: what it has is always a
\* prefix of what is stored, every call adds to it, and no call fails before
\* it has them all.
C2_CursorDeliversInOrder ==
    rd.phase # "idle" =>
        /\ IsPrefix(rd.got, AllStored)
        /\ rd.last \in {"None", "Ok"} \/ rd.got = AllStored

\* The ids whose index file and segment file are both in d and agree on the
\* hash.
ValidIds(d) == {i \in DOMAIN d.index \cap DOMAIN d.segment : ChunkVerify(d, i)}

\* C11: a log made on a directory starts with head = tail = one past the
\* largest id of a valid chunk (0 when there is none), and the disk's head and
\* tail are the smallest and the largest id of a valid chunk (0 when none).
C11_InitialIds ==
    (opened # "none" /\ nappends = 0) =>
        /\ head = tail
        /\ head = IF ValidIds(dir) = {} THEN 0 ELSE SetMax(ValidIds(dir)) + 1
        /\ disk_handler.head = IF ValidIds(dir) = {} THEN 0 ELSE SetMin(ValidIds(dir))
        /\ disk_handler.tail = IF ValidIds(dir) = {} THEN 0 ELSE SetMax(ValidIds(dir))

\* ------------------------------------------------------------------- reopen

\* The log is dropped and CommitLog::new is called on the same directory, with
\* the same limits: the segments in memory are gone, the files stay.  hist
\* keeps the entries that had reached the disk.
Reopen ==
    /\ status = "running"
    /\ rd.phase = "idle"
    /\ disk_handler.some
    /\ ~before.some
    /\ before' = [some |-> TRUE, chunks |-> disk_handler.chunks, nappends |-> nappends]
    /\ disk_handler' = DiskHandlerNew(dir)
    /\ head' = InMemoryHead(dir)
    /\ tail' = InMemoryHead(dir)
    /\ active_segment' = SegWithCapacity
    /\ segments' = <<>>
    /\ segments_size' = 0
    /\ ret' = [kind |-> "None"]
    /\ hist' = SelectSeq(hist, LAMBDA h : h.id \in disk_handler.chunks)
    /\ UNCHANGED <<max_segment_size, max_segments, dir, opened, clock, status,
                   seals, evictions, failed, nappends, rd, inserted>>

NextReopen == AppendBytes \/ AppendWithTimestamp \/ Reopen

\* Appends, with one drop and reopen of the log somewhere among them.
SpecReopen == Init /\ [][NextReopen]_vars

\* The first n elements of s, or all of s.
TakeSeq(s, n) == SubSeq(s, 1, Min(n, Len(s)))

\* The entries that were inserted in the chunks ids, by id.
RECURSIVE InsertedIn(_)
InsertedIn(ids) ==
    IF ids = {} THEN <<>>
    ELSE inserted[SetMin(ids)] \o InsertedIn(ids \ {SetMin(ids)})

\* The entries that were inserted at position (c, o) and after it, in the
\* chunks the disk holds.
InsertedFrom(c, o) ==
    SubSeq(inserted[c], o + 1, Len(inserted[c]))
        \o InsertedIn({x \in disk_handler.chunks \cap DOMAIN inserted : x > c})

\* C12: after a drop and reopen, every chunk the log had is there and passes
\* verification, the number of chunks is the same, and read and read_range of
\* every entry that was inserted give what was inserted, with its timestamp.
C12_PersistsAcrossReopen ==
    before.some =>
        /\ before.chunks \subseteq disk_handler.chunks
        /\ \A c \in before.chunks : ChunkVerify(dir, c)
        /\ nappends = before.nappends =>
              DiskLen(disk_handler) = Cardinality(before.chunks)
        /\ \A c \in before.chunks \cap DOMAIN inserted :
              \A o \in 0..(Len(inserted[c]) - 1) :
                /\ DiskReadWithTimestamps(disk_handler, dir, c, o)
                      = Ok(inserted[c][o + 1])
                /\ DiskRead(disk_handler, dir, c, o) = Ok(inserted[c][o + 1][1])
                /\ \A len \in 1..MaxReadLen :
                      /\ DiskReadvWithTimestamps(disk_handler, dir, c, o, len).out
                            = TakeSeq(InsertedFrom(c, o), len)
                      /\ DiskReadv(disk_handler, dir, c, o, len).out
                            = PayloadsOf(TakeSeq(InsertedFrom(c, o), len))

C12_Witness ==
    /\ before.some
    /\ nappends = before.nappends
    /\ Cardinality(DOMAIN inserted \cap before.chunks) >= 2

\* The offsets and lengths reads are tried with.
Offsets == 0..MaxAppends
ReadLens == 0..MaxReadLen

\* C13: without a disk, the four reads of an evicted segment (id < head) give
\* NotFound, and every entry of a segment head..tail is still read back.
C13_EvictionWithoutDiskDrops ==
    (~disk_handler.some /\ head > 0) =>
        /\ \A id \in 0..(head - 1), offset \in Offsets :
              /\ Read(id, offset) = NotFound
              /\ ReadWithTimestamps(id, offset) = NotFound
              /\ \A len \in ReadLens :
                    /\ Readv(id, offset, len).kind = "NotFound"
                    /\ ReadvWithTimestamps(id, offset, len).kind = "NotFound"
        /\ \A i \in 1..Len(hist) :
              hist[i].id >= head =>
                /\ Read(hist[i].id, hist[i].k) = Ok(hist[i].bytes)
                /\ ReadWithTimestamps(hist[i].id, hist[i].k)
                      = Ok(<<hist[i].bytes, hist[i].timestamp>>)

\* The segment ids past tail that reads are tried with.
PastTail == (tail + 1)..(tail + 2)

\* C14: read, read_with_timestamps, readv and readv_with_timestamps of a
\* segment id greater than tail give NotFound and no data, for every offset
\* and length.
C14_PastTailNotFound ==
    \A id \in PastTail, offset \in Offsets :
        /\ Read(id, offset) = NotFound
        /\ ReadWithTimestamps(id, offset) = NotFound
        /\ \A len \in ReadLens :
              /\ Readv(id, offset, len).kind = "NotFound"
              /\ Readv(id, offset, len).out = <<>>
              /\ ReadvWithTimestamps(id, offset, len).kind = "NotFound"
              /\ ReadvWithTimestamps(id, offset, len).out = <<>>

C14_Witness ==
    /\ disk_handler.chunks # {}
    /\ segments # <<>>
    /\ active_segment.data # <<>>
    /\ Read(tail + 1, 0) = NotFound
    /\ Readv(tail, 0, 1).kind = "Ok"

\* C15: for an active segment that holds entries, read(tail, len) gives
\* NotFound, with no panic and no data, and read(tail, len - 1) gives the
\* payload appended last.
C15_ActiveOffsetBoundary ==
    active_segment.data # <<>> =>
        /\ Read(tail, SegLen(active_segment)) = NotFound
        /\ Read(tail, SegLen(active_segment) - 1)
              = Ok(active_segment.data[Len(active_segment.data)][1])

\* The positions (id, offset) that hold an entry: in a chunk on disk, in a
\* frozen segment, in the active segment.
Positions ==
    {<<id, o>> \in disk_handler.chunks \X Offsets : o < ChunkEntries(dir, id)}
    \cup {<<head + i - 1, o>> : <<i, o>> \in
             {<<i, o>> \in (1..Len(segments)) \X Offsets : o < SegLen(segments[i])}}
    \cup {<<tail, o>> : o \in {o \in Offsets : o < SegLen(active_segment)}}

\* C16: readv(id, offset, 0) at a position that holds an entry, in any tier,
\* returns no payload, remaining 0 and the cursor (id, offset) it was given.
C16_ZeroLengthRead ==
    \A p \in Positions :
        Readv(p[1], p[2], 0)
            = [kind |-> "Ok", out |-> <<>>, remaining |-> 0,
               index |-> p[1], offset |-> p[2]]

\* C17: readv from the oldest stored position with a length n above the
\* number of stored entries returns every stored payload, in append order,
\* and remaining = n - that number.
C17_OverLongRead ==
    AllStored # <<>> =>
        \A n \in (Len(AllStored) + 1)..(Len(AllStored) + 2) :
            /\ Readv(OldestStored[1], OldestStored[2], n).kind = "Ok"
            /\ Readv(OldestStored[1], OldestStored[2], n).out = AllStored
            /\ Readv(OldestStored[1], OldestStored[2], n).remaining
                  = n - Len(AllStored)

\* ------------------------------------------------------------- construction

\* The values of max_segment_size that CommitLog::new is called with.
SegmentSizes == {0, MinSegmentSize - 1, MinSegmentSize, MinSegmentSize + 1}

\* A test that turns down the smallest size as well.
NewRejects_Le(size) == size <= MinSegmentSize

\* CommitLog::new, the test of max_segment_size.
NewRejects(size) == size < MinSegmentSize

\* Before CommitLog::new(max_segment_size, max_segments, dir) is called: the
\* arguments are chosen, the directory holds what it holds, no log exists.
InitNew ==
    /\ max_segment_size \in SegmentSizes
    /\ max_segments \in 0..MaxMemorySegments
    /\ opened \in Dirs
    /\ dir = IF opened = "old" THEN OldDir ELSE EmptyDir
    /\ disk_handler = NoDiskHandler
    /\ head = 0
    /\ tail = 0
    /\ active_segment = SegWithCapacity
    /\ segments = <<>>
    /\ segments_size = 0
    /\ clock = 1
    /\ status = "unmade"
    /\ ret = [kind |-> "None"]
    /\ hist = <<>>
    /\ seals = 0
    /\ evictions = 0
    /\ failed = FALSE
    /\ nappends = 0
    /\ rd = [phase |-> "idle", index |-> 0, offset |-> 0, got |-> <<>>, steps |-> 0,
             last |-> "None"]
    /\ before = [some |-> FALSE, chunks |-> {}, nappends |-> 0]
    /\ inserted = <<>>

\* CommitLog::new: InvalidInput for a size it turns down, with nothing made;
\* else the log, which starts where DiskHandler::new says when it has a
\* directory and at 0 when it has none.
New ==
    /\ status = "unmade"
    /\ IF NewRejects(max_segment_size)
       THEN /\ status' = "invalid"
            /\ ret' = [kind |-> "InvalidInput"]
            /\ UNCHANGED <<disk_handler, head, tail>>
       ELSE /\ status' = "running"
            /\ ret' = [kind |-> "None"]
            /\ disk_handler' = IF opened = "none" THEN NoDiskHandler
                               ELSE DiskHandlerNew(dir)
            /\ head' = IF opened = "none" THEN 0 ELSE InMemoryHead(dir)
            /\ tail' = IF opened = "none" THEN 0 ELSE InMemoryHead(dir)
    /\ UNCHANGED <<max_segment_size, max_segments, active_segment, segments,
                   segments_size, dir, opened, clock, hist, seals, evictions,
                   failed, nappends, rd, before, inserted>>

NextNew == New \/ AppendBytes \/ AppendWithTimestamp

\* CommitLog::new with any of the sizes, then appends to the log if one was
\* made.
SpecNew == InitNew /\ [][NextNew]_vars

\* C18: new fails with InvalidInput for every max_segment_size below 1024 and
\* makes a log for 1024, with a directory and without.
C18_NewValidatesSegmentSize ==
    status # "unmade" =>
        /\ max_segment_size < 1024 =>
              status = "invalid" /\ ret = [kind |-> "InvalidInput"]
        /\ max_segment_size = 1024 => status \in {"running", "panicked"}

C18_Witness ==
    /\ status = "invalid"
    /\ max_segment_size = 1023
    /\ opened # "none"

\* ------------------------------------------------------- timestamp search

\* Largest timestamp and largest number of entries of a segment searched.
MaxSearchTs == 4
MaxSearchLen == 4

\* slice::binary_search_by over the timestamps ts (a sequence), between left
\* and right, 0-based: [found, idx], idx the match or the insertion point.
RECURSIVE BinarySearchBy(_, _, _, _)
BinarySearchBy(ts, t, left, right) ==
    IF left >= right THEN [found |-> FALSE, idx |-> left]
    ELSE LET mid == left + ((right - left) \div 2)
         IN IF ts[mid + 1] < t THEN BinarySearchBy(ts, t, mid + 1, right)
            ELSE IF ts[mid + 1] > t THEN BinarySearchBy(ts, t, left, mid)
            ELSE [found |-> TRUE, idx |-> mid]

\* The timestamps of the entries of a segment in memory.
TimestampsOf(entries) == [i \in 1..Len(entries) |-> entries[i][2]]

\* The timestamps of the entries of an index file.
IndexTimestamps(idx) == [i \in 1..Len(idx.entries) |-> idx.entries[i][1]]

\* A search that gives the entry before the insertion point on a miss.
SegIndexFromTimestamp_Before(seg, timestamp) ==
    LET r == BinarySearchBy(TimestampsOf(seg.data), timestamp, 0, Len(seg.data))
    IN IF r.found \/ r.idx = 0 THEN r.idx ELSE r.idx - 1

\* Segment::index_from_timestamp: Ok(idx) and Err(idx) both give idx.
SegIndexFromTimestamp(seg, timestamp) ==
    BinarySearchBy(TimestampsOf(seg.data), timestamp, 0, Len(seg.data)).idx

\* Index::index_from_timestamp: all entries are read, their timestamps
\* searched.
IndexIndexFromTimestamp(idx, timestamp) ==
    IF IndexReadvWithTimestamps(idx, 0, IndexEntriesCount(idx)).kind # "Ok"
    THEN [kind |-> IndexReadvWithTimestamps(idx, 0, IndexEntriesCount(idx)).kind]
    ELSE Ok(BinarySearchBy(IndexTimestamps(idx), timestamp, 0,
                           IndexEntriesCount(idx)).idx)

\* The index file Chunk::new writes for the entries of a segment.
IndexOf(entries) == IndexNew(Hash(Flatten(entries)), Lens(entries))

\* One segment, empty, to be filled by pushes and searched.
InitSearch ==
    /\ max_segment_size = MinSegmentSize
    /\ max_segments = 0
    /\ opened = "none"
    /\ dir = EmptyDir
    /\ disk_handler = NoDiskHandler
    /\ head = 0
    /\ tail = 0
    /\ active_segment = SegWithCapacity
    /\ segments = <<>>
    /\ segments_size = 0
    /\ clock = 1
    /\ status = "running"
    /\ ret = [kind |-> "None"]
    /\ hist = <<>>
    /\ seals = 0
    /\ evictions = 0
    /\ failed = FALSE
    /\ nappends = 0
    /\ rd = [phase |-> "idle", index |-> 0, offset |-> 0, got |-> <<>>, steps |-> 0,
             last |-> "None"]
    /\ before = [some |-> FALSE, chunks |-> {}, nappends |-> 0]
    /\ inserted = <<>>

\* Segment::push_with_timestamp with a timestamp above the ones pushed.
PushIncreasing ==
    \E bytes \in Payloads, timestamp \in 0..MaxSearchTs :
        /\ SegLen(active_segment) < MaxSearchLen
        /\ active_segment.data # <<>> => timestamp > active_segment.end_time
        /\ active_segment' = SegPushWithTimestamp(active_segment, bytes, timestamp)
        /\ ret' = [kind |-> "None"]
        /\ UNCHANGED <<head, tail, max_segment_size, max_segments, segments,
                       segments_size, disk_handler, dir, opened, clock, status,
                       hist, seals, evictions, failed, nappends, rd, before,
                       inserted>>

\* index_from_timestamp(t) of the segment, and of the index file of the chunk
\* that holds the same entries.
Search ==
    \E t \in 0..(MaxSearchTs + 1) :
        /\ active_segment.data # <<>>
        /\ ret' = [kind |-> "Index", timestamp |-> t,
                   memory |-> SegIndexFromTimestamp(active_segment, t),
                   disk |-> IndexIndexFromTimestamp(IndexOf(active_segment.data), t)]
        /\ UNCHANGED <<head, tail, max_segment_size, max_segments, active_segment,
                       segments, segments_size, disk_handler, dir, opened, clock,
                       status, hist, seals, evictions, failed, nappends, rd, before,
                       inserted>>

NextSearch == PushIncreasing \/ Search

\* Segments with strictly increasing timestamps, and searches in them.
SpecSearch == InitSearch /\ [][NextSearch]_vars

\* i (0-based) is where timestamp t is in ts, or where it would be inserted.
IsIndexFor(ts, t, i) ==
    /\ i \in 0..Len(ts)
    /\ \A j \in 1..Len(ts) : ts[j] = t => i = j - 1
    /\ \A j \in 1..i : ts[j] < t
    /\ \A j \in (i + 1)..Len(ts) : ts[j] >= t

\* C19: in a segment with strictly increasing timestamps, in memory or in an
\* index file, index_from_timestamp(t) is the index of the entry with
\* timestamp t when there is one, and else the smallest index whose timestamp
\* is above t (the insertion point).
C19_TimestampSearch ==
    ret.kind = "Index" =>
        /\ IsIndexFor(TimestampsOf(active_segment.data), ret.timestamp, ret.memory)
        /\ ret.disk.kind = "Ok"
        /\ IsIndexFor(TimestampsOf(active_segment.data), ret.timestamp, ret.disk.val)

C19_Witness ==
    /\ ret.kind = "Index"
    /\ SegLen(active_segment) >= 3
    /\ \A j \in 1..Len(active_segment.data) :
          active_segment.data[j][2] # ret.timestamp
    /\ ret.memory > 0
    /\ ret.memory < SegLen(active_segment)

\* ------------------------------------------------- lookup by timestamp

\* Largest timestamp of an append whose entries are looked up by timestamp.
MaxLookupTs == 3

\* DiskHandler::is_timestamp_contained
DiskIsTimestampContained(dh, timestamp) ==
    dh.head_time <= timestamp /\ timestamp <= dh.tail_time

\* Chunk::is_timestamp_contained: the test of its index file
\* (Index::is_timestamp_contained).
ChunkIsTimestampContained(d, index, timestamp) ==
    /\ IndexStartTime(d.index[index]) <= timestamp
    /\ timestamp <= IndexEndTime(d.index[index])

\* Chunk::index_from_timestamp: the search of its index file.
ChunkIndexFromTimestamp(d, index, timestamp) ==
    IndexIndexFromTimestamp(d.index[index], timestamp)

\* Ok((idx, i)) for a search result Ok(i), an error as it is.
WithChunkId(index, r) == IF r.kind # "Ok" THEN r ELSE Ok(<<index, r.val>>)

\* DiskHandler::index_from_timestamp: the chunks are visited in the order of
\* the hash map, which is any order, and the first that contains the
\* timestamp answers: the set of results the call can give.
DiskIndexFromTimestamp(dh, d, timestamp) ==
    IF \A c \in dh.chunks : ~ChunkIsTimestampContained(d, c, timestamp)
    THEN {NotFound}
    ELSE {WithChunkId(c, ChunkIndexFromTimestamp(d, c, timestamp)) :
             c \in {x \in dh.chunks : ChunkIsTimestampContained(d, x, timestamp)}}

\* CommitLog::index_from_timestamp, the search of the frozen segments from the
\* i-th on.
RECURSIVE FrozenIndexFromTimestamp(_, _)
FrozenIndexFromTimestamp(i, timestamp) ==
    IF i > Len(segments) THEN NotFound
    ELSE IF segments[i].start_time <= timestamp /\ timestamp <= segments[i].end_time
    THEN Ok(<<i - 1 + head, SegIndexFromTimestamp(segments[i], timestamp)>>)
    ELSE FrozenIndexFromTimestamp(i + 1, timestamp)

\* CommitLog::index_from_timestamp: the set of results the call can give.
IndexFromTimestamp(timestamp) ==
    IF active_segment.end_time < timestamp THEN {NotFound}
    ELSE IF active_segment.start_time <= timestamp
    THEN {Ok(<<tail, SegIndexFromTimestamp(active_segment, timestamp)>>)}
    ELSE IF Len(segments) > 0 /\ segments[1].start_time <= timestamp
    THEN {FrozenIndexFromTimestamp(1, timestamp)}
    ELSE IF ~disk_handler.some THEN {NotFound}
    ELSE IF ~DiskIsTimestampContained(disk_handler, timestamp) THEN {NotFound}
    ELSE DiskIndexFromTimestamp(disk_handler, dir, timestamp)

\* The timestamp of the entry appended last (of the old directory's entries
\* when nothing was appended).
LastTimestamp == IF hist = <<>> THEN 1 ELSE hist[Len(hist)].timestamp

\* CommitLog::append_with_timestamp with a timestamp not below the last one.
AppendNonDecreasing ==
    \E bytes \in Payloads, timestamp \in 1..MaxLookupTs :
        /\ timestamp >= LastTimestamp
        /\ DoAppend(bytes, timestamp, "none")
        /\ UNCHANGED clock

NextTime == AppendNonDecreasing

\* A log whose entries are appended with non-decreasing timestamps.
SpecTime == Init /\ [][NextTime]_vars

\* The timestamps of the entries of the segment with the given id, in
\* whichever tier it is; <<>> when the log holds no such segment.
TimestampsAt(id) ==
    IF id \in disk_handler.chunks THEN IndexTimestamps(dir.index[id])
    ELSE IF id >= head /\ id - head + 1 <= Len(segments)
    THEN TimestampsOf(segments[id - head + 1].data)
    ELSE IF id = tail THEN TimestampsOf(active_segment.data)
    ELSE <<>>

\* The ids of the segments, in any tier, whose time window contains t.
SegmentsContaining(t) ==
    {id \in 0..tail :
        /\ TimestampsAt(id) # <<>>
        /\ TimestampsAt(id)[1] <= t
        /\ t <= TimestampsAt(id)[Len(TimestampsAt(id))]}

\* Entry i (0-based) of ts is at or after t, and the entry before it is not
\* after t.
IsNearestAtOrAfter(ts, t, i) ==
    /\ i \in 0..(Len(ts) - 1)
    /\ ts[i + 1] >= t
    /\ i > 0 => ts[i] <= t

\* C20: with non-decreasing timestamps, index_from_timestamp(t) gives (id, i)
\* for a segment id whose time window contains t, in whichever tier it is,
\* with i the nearest entry at or after t, and NotFound exactly when no
\* segment's window contains t.
C20_CrossTierTimestampLookup ==
    (status = "running" /\ hist # <<>>) =>
        \A t \in 1..(MaxLookupTs + 1) :
            \A r \in IndexFromTimestamp(t) :
                IF SegmentsContaining(t) = {} THEN r = NotFound
                ELSE /\ r.kind = "Ok"
                     /\ r.val[1] \in SegmentsContaining(t)
                     /\ IsNearestAtOrAfter(TimestampsAt(r.val[1]), t, r.val[2])

\* ------------------------------------------------- read by timestamp

\* DiskHandler::read_with_timestamps at what DiskHandler::index_from_timestamp
\* returned (the `?` passes an error on).
DiskReadAt(dh, d, i) ==
    IF i.kind # "Ok" THEN i ELSE DiskReadWithTimestamps(dh, d, i.val[1], i.val[2])

\* CommitLog::read_from_timestamp, the part on disk: the set of results.
DiskReadFromTimestamp(timestamp) ==
    IF ~disk_handler.some THEN {NotFound}
    ELSE IF ~DiskIsTimestampContained(disk_handler, timestamp) THEN {NotFound}
    ELSE {DiskReadAt(disk_handler, dir, i) :
             i \in DiskIndexFromTimestamp(disk_handler, dir, timestamp)}

\* CommitLog::read_from_timestamp, the loop over the frozen segments from the
\* i-th on; a loop that finds nothing goes on to the disk.
RECURSIVE FrozenReadFromTimestamp(_, _)
FrozenReadFromTimestamp(i, timestamp) ==
    IF i > Len(segments) THEN DiskReadFromTimestamp(timestamp)
    ELSE IF segments[i].start_time <= timestamp /\ timestamp <= segments[i].end_time
    THEN {SegAtWithTimestamp(segments[i],
                             SegIndexFromTimestamp(segments[i], timestamp))}
    ELSE FrozenReadFromTimestamp(i + 1, timestamp)

\* CommitLog::read_from_timestamp: the set of results the call can give.  The
\* frozen segments are searched when the first starts at or after the
\* timestamp.
ReadFromTimestamp(timestamp) ==
    IF active_segment.end_time < timestamp THEN {NotFound}
    ELSE IF active_segment.start_time <= timestamp
    THEN {SegAtWithTimestamp(active_segment,
                             SegIndexFromTimestamp(active_segment, timestamp))}
    ELSE IF Len(segments) > 0 /\ segments[1].start_time >= timestamp
    THEN FrozenReadFromTimestamp(1, timestamp)
    ELSE DiskReadFromTimestamp(timestamp)

\* C21: read_from_timestamp(t) gives NotFound exactly when
\* index_from_timestamp(t) fails, and else what read_with_timestamps gives at
\* the (id, index) index_from_timestamp(t) returns.
C21_ReadFromTimestampComposes ==
    status = "running" =>
        \A t \in 1..(MaxLookupTs + 1) :
            \A i \in IndexFromTimestamp(t), r \in ReadFromTimestamp(t) :
                IF i.kind # "Ok" THEN r = NotFound
                ELSE r = ReadWithTimestamps(i.val[1], i.val[2])

\* --------------------------------------------------- chunk round trip

\* C22: a chunk made by Chunk::new verifies, on the handle Chunk::new returned
\* and on the one Chunk::open returns after a reopen, has as many entries as
\* were given and reads the payload of the i-th at i; a chunk whose segment
\* file holds other bytes than the ones hashed does not verify.
C22_ChunkRoundTrip ==
    /\ \A c \in DOMAIN inserted \cap disk_handler.chunks :
           /\ ChunkVerify(dir, c)
           /\ ChunkEntries(dir, c) = Len(inserted[c])
           /\ \A i \in 0..(Len(inserted[c]) - 1) :
                  ChunkRead(dir, c, i) = Ok(inserted[c][i + 1][1])
    /\ \A c \in DOMAIN dir.index \cap DOMAIN dir.segment :
           dir.index[c].hash # Hash(Flatten(ChunkReadvWithTimestamps(
               dir, c, 0, ChunkEntries(dir, c)).out))
               => ~ChunkVerify(dir, c)

\* A chunk of two entries, the second not empty, opened again after a restart,
\* beside a chunk that does not verify.
C22_Witness ==
    /\ before.some
    /\ \E c \in DOMAIN inserted \cap disk_handler.chunks :
           /\ Len(inserted[c]) >= 2
           /\ inserted[c][2][1] # <<>>
    /\ \E c \in DOMAIN dir.index \cap DOMAIN dir.segment : ~ChunkVerify(dir, c)

\* ------------------------------------------- opening a directory of files

\* Largest number in the name of a file found in the directory.
MaxFileId == 2

\* Bytes of the hash at the start of an index file, and of one entry.
HASH_SIZE == 32
ENTRY_SIZE == 24

\* The directories DiskHandler::new is given.  For each number up to
\* MaxFileId: no file, an index file alone, a segment file alone, the pair
\* Chunk::new wrote for OldEntries, that pair with other bytes in the segment
\* file, that pair with the index file cut short of its hash (a hash of
\* <<"partial", k>> is a file of k bytes), or a file with another extension.
OpenDirs ==
    { [index |->
          [i \in {j \in 0..MaxFileId :
                     f[j] \in {"index", "chunk", "checksum", "truncated"}} |->
              IF f[i] = "truncated"
              THEN [hash |-> <<"partial", HASH_SIZE - 1>>, entries |-> <<>>]
              ELSE IndexOf(OldEntries)],
       segment |->
          [i \in {j \in 0..MaxFileId :
                     f[j] \in {"segment", "chunk", "checksum", "truncated"}} |->
              IF f[i] = "checksum" THEN << <<"x", 1612>> >>
              ELSE Flatten(OldEntries)],
       other |-> {j \in 0..MaxFileId : f[j] = "other"}] :
      f \in [0..MaxFileId ->
                {"absent", "index", "segment", "chunk", "checksum", "truncated",
                 "other"}] }

\* DiskHandler::new: the set of results.  Chunk::open of a pair whose index
\* file is shorter than the hash: len - HASH_SIZE overflows, which panics, or
\* wraps in a build without the check, and then the read of the first entry
\* fails and `?` returns the error.
DiskHandlerNewResult(d) ==
    IF \E i \in DOMAIN d.index \cap DOMAIN d.segment :
           /\ d.index[i].hash[1] = "partial"
           /\ d.index[i].hash[2] + ENTRY_SIZE * Len(d.index[i].entries) < HASH_SIZE
    THEN {Panic, IoError}
    ELSE {Ok(DiskHandlerNew(d))}

\* A directory, before it is opened.
InitOpen ==
    /\ max_segment_size = MinSegmentSize
    /\ max_segments = 0
    /\ opened = "old"
    /\ dir \in OpenDirs
    /\ disk_handler = NoDiskHandler
    /\ head = 0
    /\ tail = 0
    /\ active_segment = SegWithCapacity
    /\ segments = <<>>
    /\ segments_size = 0
    /\ clock = 1
    /\ status = "unmade"
    /\ ret = [kind |-> "None"]
    /\ hist = <<>>
    /\ seals = 0
    /\ evictions = 0
    /\ failed = FALSE
    /\ nappends = 0
    /\ rd = [phase |-> "idle", index |-> 0, offset |-> 0, got |-> <<>>, steps |-> 0,
             last |-> "None"]
    /\ before = [some |-> FALSE, chunks |-> {}, nappends |-> 0]
    /\ inserted = <<>>

\* DiskHandler::new on the directory.
DiskOpen ==
    \E r \in DiskHandlerNewResult(dir) :
        /\ status = "unmade"
        /\ ret' = [kind |-> r.kind]
        /\ status' = IF r.kind = "Ok" THEN "running"
                     ELSE IF r.kind = "Panic" THEN "panicked" ELSE "failed"
        /\ disk_handler' = IF r.kind = "Ok" THEN r.val ELSE disk_handler
        /\ head' = IF r.kind = "Ok" THEN InMemoryHead(dir) ELSE head
        /\ tail' = IF r.kind = "Ok" THEN InMemoryHead(dir) ELSE tail
        /\ UNCHANGED <<max_segment_size, max_segments, active_segment, segments,
                       segments_size, dir, opened, clock, hist, seals, evictions,
                       failed, nappends, rd, before, inserted>>

SpecOpen == InitOpen /\ [][DiskOpen]_vars

\* C23: DiskHandler::new never fails because of the files it finds; the
\* chunks it opens are the numbers with both files and a matching hash; every
\* number with an index file alone, a segment file alone, a hash that does not
\* match or a name that is not one of a chunk's is reported exactly once in
\* invalid_files and is not among the chunks that are counted and read.
C23_OpenToleratesBadFiles ==
    status # "unmade" =>
        /\ status = "running"
        /\ disk_handler.chunks =
              {i \in DOMAIN dir.index \cap DOMAIN dir.segment :
                  dir.index[i].hash = Hash(dir.segment[i])}
        /\ DiskLen(disk_handler) = Cardinality(disk_handler.chunks)
        /\ \A i \in DirIndices(dir) \ disk_handler.chunks :
              /\ Cardinality({x \in disk_handler.invalid_files : x[2] = i}) = 1
              /\ \A o \in Offsets :
                    DiskReadWithTimestamps(disk_handler, dir, i, o) = NotFound
        /\ \A x \in disk_handler.invalid_files :
              x[2] \in DirIndices(dir) \ disk_handler.chunks

\* ------------------------------------------------------- ids of segments

\* C24: the segment id an append returns is at least the one the append
\* before it returned, it is the tail before the append if the append did not
\* seal the active segment and one more if it did, and head and tail never
\* decrease.
C24_IdsNeverDecrease ==
    [][/\ head' >= head
       /\ tail' >= tail
       /\ ret'.kind = "Ok" =>
              /\ ret'.id = IF ret'.sealed THEN tail + 1 ELSE tail
              /\ ret'.id = tail'
              /\ hist # <<>> => ret'.id >= hist[Len(hist)].id]_vars

\* An append that sealed the active segment and evicted a frozen one, after
\* another seal: head and tail have both moved.
C24_Witness ==
    /\ ret.kind = "Ok"
    /\ ret.sealed
    /\ ret.evicted
    /\ seals >= 2
    /\ head < tail

\* --------------------------------------------------- a failed disk insert

\* C25: an append whose insert of the evicted segment fails returns the error
\* and leaves the log as it was: no frozen segment is lost, and the number of
\* frozen segments is still tail - head.
C25_FailedInsertChangesNothing ==
    [][ret'.kind = "IoError" =>
          /\ segments' = segments
          /\ segments_size' = segments_size
          /\ active_segment' = active_segment
          /\ head' = head
          /\ tail' = tail
          /\ Len(segments') = tail' - head']_vars

\* ------------------------------------------------- the steps of retention

C27_ReadvConservesCount ==
    status = "running" =>
        \A index \in 0..tail, offset \in Offsets, len \in ReadLens :
            /\ ReadvWithTimestamps(index, offset, len).kind = "Ok" =>
                  Len(ReadvWithTimestamps(index, offset, len).out)
                  + ReadvWithTimestamps(index, offset, len).remaining = len
            /\ Readv(index, offset, len).kind = "Ok" =>
                  Len(Readv(index, offset, len).out)
                  + Readv(index, offset, len).remaining = len

\* A read that starts on disk, goes on in memory and comes back one entry
\* short.
C27_Witness ==
    /\ status = "running"
    /\ \E index \in 0..(head - 1), offset \in Offsets :
           /\ Readv(index, offset, MaxReadLen).kind = "Ok"
           /\ Len(Readv(index, offset, MaxReadLen).out) = MaxReadLen - 1
           /\ Readv(index, offset, MaxReadLen).remaining = 1
           /\ Readv(index, offset, MaxReadLen).index >= head

\* ------------------------------------------ range reads of the disk tier

\* C28: a readv or readv_with_timestamps of the disk that succeeds returns
\* (0, Some(next)), (0, None) or (k, None) with k > 0 and never
\* (k > 0, Some(_)); next is a chunk on disk, not before the one asked for and
\* not after the tail; a request that ends strictly inside chunk id returns
\* (0, Some(id)), and one that ends with the last entry of the chunk returns
\* the next chunk there is, or None.
C28_DiskReadvShapes ==
    disk_handler.some =>
        \A id \in disk_handler.chunks, offset \in Offsets, len \in ReadLens :
            DiskReadv(disk_handler, dir, id, offset, len).kind = "Ok" =>
                /\ DiskReadv(disk_handler, dir, id, offset, len).next
                   = DiskReadvWithTimestamps(disk_handler, dir, id, offset, len).next
                /\ DiskReadv(disk_handler, dir, id, offset, len).left
                   = DiskReadvWithTimestamps(disk_handler, dir, id, offset, len).left
                /\ ~(/\ DiskReadv(disk_handler, dir, id, offset, len).left > 0
                     /\ DiskReadv(disk_handler, dir, id, offset, len).next.some)
                /\ DiskReadv(disk_handler, dir, id, offset, len).next.some =>
                      /\ DiskReadv(disk_handler, dir, id, offset, len).next.id
                            \in disk_handler.chunks
                      /\ id <= DiskReadv(disk_handler, dir, id, offset, len).next.id
                      /\ DiskReadv(disk_handler, dir, id, offset, len).next.id
                            <= disk_handler.tail
                /\ offset + len < ChunkEntries(dir, id) =>
                      /\ DiskReadv(disk_handler, dir, id, offset, len).left = 0
                      /\ DiskReadv(disk_handler, dir, id, offset, len).next = Some(id)
                /\ offset + len = ChunkEntries(dir, id) =>
                      /\ DiskReadv(disk_handler, dir, id, offset, len).left = 0
                      /\ DiskReadv(disk_handler, dir, id, offset, len).next
                         = IF \E j \in disk_handler.chunks : j > id
                           THEN Some(SetMin({j \in disk_handler.chunks : j > id}))
                           ELSE None

\* A read that ends with the last entry of a chunk and is sent past a missing
\* id to the next chunk, on a disk where another read ends inside a chunk and
\* a third runs out of chunks.
C28_Witness ==
    /\ disk_handler.some
    /\ \E id \in disk_handler.chunks, offset \in Offsets :
           /\ DiskReadv(disk_handler, dir, id, offset, 1).kind = "Ok"
           /\ DiskReadv(disk_handler, dir, id, offset, 1).next.some
           /\ DiskReadv(disk_handler, dir, id, offset, 1).next.id > id + 1
    /\ \E id \in disk_handler.chunks :
           DiskReadv(disk_handler, dir, id, 0, 1).next = Some(id)
    /\ \E id \in disk_handler.chunks, offset \in Offsets :
           /\ DiskReadv(disk_handler, dir, id, offset, MaxReadLen).kind = "Ok"
           /\ DiskReadv(disk_handler, dir, id, offset, MaxReadLen).left > 0

\* C29: on a disk whose chunk ids have gaps, a readv that starts in a chunk
\* and asks for more than is left in it goes on with the later chunks in
\* increasing id order, whatever ids are missing between them: it returns the
\* first len of the payloads stored from its position on, and it returns
\* (remaining > 0, None) only when it has returned all of them up to the last
\* chunk.
C29_DiskReadvSkipsMissingIds ==
    disk_handler.some =>
        \A id \in disk_handler.chunks, offset \in Offsets, len \in ReadLens :
            offset <= ChunkEntries(dir, id) =>
                /\ DiskReadv(disk_handler, dir, id, offset, len).kind = "Ok"
                /\ DiskReadv(disk_handler, dir, id, offset, len).out
                   = TakeSeq(
                       SubSeq(DiskStored(dir, {j \in disk_handler.chunks : j >= id}),
                              offset + 1,
                              Len(DiskStored(dir,
                                     {j \in disk_handler.chunks : j >= id}))),
                       len)
                /\ DiskReadv(disk_handler, dir, id, offset, len).left > 0 =>
                      /\ DiskReadv(disk_handler, dir, id, offset, len).next = None
                      /\ Len(DiskReadv(disk_handler, dir, id, offset, len).out)
                         = Len(DiskStored(dir,
                                  {j \in disk_handler.chunks : j >= id})) - offset

\* Two payloads read from two chunks with a missing id between them.
C29_Witness ==
    /\ disk_handler.some
    /\ \E id \in disk_handler.chunks :
           /\ (id + 1) \notin disk_handler.chunks
           /\ DiskReadv(disk_handler, dir, id, ChunkEntries(dir, id) - 1,
                        MaxReadLen).kind = "Ok"
           /\ Len(DiskReadv(disk_handler, dir, id, ChunkEntries(dir, id) - 1,
                            MaxReadLen).out) = MaxReadLen
           /\ DiskReadv(disk_handler, dir, id, ChunkEntries(dir, id) - 1,
                        MaxReadLen).next.some

\* -------------------------------------------------- time bounds of the disk

\* C30: after DiskHandler::new and after every insert, head_time is the least
\* start time and tail_time the greatest end time of the chunks that hold
\* entries, so that is_timestamp_contained(t) holds for every t in the window
\* of a chunk and index_from_timestamp(t) names a chunk whose window has t.
C30_DiskTimeBounds ==
    (disk_handler.some
     /\ \E c \in disk_handler.chunks : ChunkEntries(dir, c) > 0) =>
        /\ disk_handler.head_time
           = SetMin({IndexStartTime(dir.index[c]) :
                       c \in {x \in disk_handler.chunks : ChunkEntries(dir, x) > 0}})
        /\ disk_handler.tail_time
           = SetMax({IndexEndTime(dir.index[c]) :
                       c \in {x \in disk_handler.chunks : ChunkEntries(dir, x) > 0}})
        /\ \A c \in disk_handler.chunks, t \in 0..MaxTs :
              ChunkIsTimestampContained(dir, c, t) =>
                  /\ DiskIsTimestampContained(disk_handler, t)
                  /\ \A r \in DiskIndexFromTimestamp(disk_handler, dir, t) :
                        /\ r.kind = "Ok"
                        /\ r.val[1] \in disk_handler.chunks
                        /\ ChunkIsTimestampContained(dir, r.val[1], t)

\* --------------------------------------------------- a reader of the disk

\* A reader starts at the lowest chunk of the disk
\* (test::read_handler_from_returned_index).
DiskReaderStart ==
    /\ status = "running"
    /\ rd.phase = "idle"
    /\ disk_handler.chunks # {}
    /\ rd' = [phase |-> "reading", index |-> SetMin(disk_handler.chunks),
              offset |-> 0, got |-> <<>>, steps |-> 0, last |-> "None"]
    /\ UNCHANGED <<head, tail, max_segment_size, max_segments, active_segment,
                   segments, segments_size, disk_handler, dir, opened, clock,
                   status, ret, hist, seals, evictions, failed, nappends, before,
                   inserted>>

\* The reader calls DiskHandler::readv(index, offset, len) and goes where the
\* call sends it: on in the same chunk, to the start of another chunk, or
\* nowhere when the call returns None; an error or a panic stops it.
DiskReaderStep ==
    \E len \in 1..MaxReadLen :
        /\ rd.phase = "reading"
        /\ rd' = IF DiskReadv(disk_handler, dir, rd.index, rd.offset, len).kind # "Ok"
                 THEN [rd EXCEPT !.phase = "stopped", !.steps = @ + 1,
                                 !.last = DiskReadv(disk_handler, dir, rd.index,
                                                    rd.offset, len).kind]
                 ELSE IF ~DiskReadv(disk_handler, dir, rd.index, rd.offset, len).next.some
                 THEN [rd EXCEPT !.phase = "done", !.steps = @ + 1, !.last = "None"]
                 ELSE [rd EXCEPT
                        !.index = DiskReadv(disk_handler, dir, rd.index, rd.offset,
                                            len).next.id,
                        !.offset = IF DiskReadv(disk_handler, dir, rd.index,
                                                rd.offset, len).next.id = rd.index
                                   THEN rd.offset + len ELSE 0,
                        !.steps = @ + 1, !.last = "Ok"]
        /\ UNCHANGED <<head, tail, max_segment_size, max_segments, active_segment,
                       segments, segments_size, disk_handler, dir, opened, clock,
                       status, ret, hist, seals, evictions, failed, nappends, before,
                       inserted>>

NextDiskReader ==
    AppendBytes \/ AppendWithTimestamp \/ DiskReaderStart \/ DiskReaderStep

\* Appends, then a reader of the disk that is never kept from its next call.
SpecDiskReader ==
    Init /\ [][NextDiskReader]_vars /\ WF_vars(DiskReaderStep)

\* C31: a reader of the disk that starts at the lowest chunk and passes back
\* the id each readv returns is never sent to a lower id, and after finitely
\* many calls is given None.
C31_DiskTraversalTerminates ==
    /\ [][rd.phase = "reading" =>
             /\ rd'.phase # "stopped"
             /\ rd'.index >= rd.index
             /\ rd'.index = rd.index => rd'.offset >= rd.offset]_vars
    /\ (rd.phase = "reading") ~> (rd.phase = "done")

\* A reader that was given None after it went through two chunks with a
\* missing id between them.
C31_Witness ==
    /\ rd.phase = "done"
    /\ rd.steps >= 3
    /\ rd.index > SetMin(disk_handler.chunks) + 1
    /\ (rd.index - 1) \notin disk_handler.chunks

\* ------------------------------------------------------ appends, one by one

\* C32: no append panics, whatever limits the log was made with.
C32_AppendNeverPanics == status # "panicked" /\ ret.kind # "Panic"

\* C33: an append that finds the active segment smaller than max_segment_size
\* leaves head, tail, the frozen segments, their total size and the disk as
\* they are, and adds the payload as the last entry of the active segment.
C33_NonSealingAppendFrame ==
    [][(nappends' = nappends + 1
        /\ active_segment.size < max_segment_size) =>
          /\ ret'.kind = "Ok"
          /\ <<head', tail', segments', segments_size', disk_handler', dir'>>
             = <<head, tail, segments, segments_size, disk_handler, dir>>
          /\ active_segment'.data
             = Append(active_segment.data, <<ret'.bytes, ret'.timestamp>>)
          /\ SegLen(active_segment') = SegLen(active_segment) + 1
          /\ active_segment'.size = active_segment.size + BytesLen(ret'.bytes)
          /\ ret'.id = tail
          /\ ret'.count = SegLen(active_segment) + 1]_vars

\* A second payload went into the active segment of a log that holds frozen
\* segments and chunks.
C33_Witness ==
    /\ ret.kind = "Ok"
    /\ ~ret.sealed
    /\ SegLen(active_segment) >= 2
    /\ active_segment.size > 0
    /\ segments # <<>>
    /\ disk_handler.chunks # {}

\* C34: every frozen segment, and every chunk an eviction wrote, holds at
\* least one entry and at least max_segment_size bytes: an empty active
\* segment is never sealed.
C34_NoEmptySealedSegment ==
    /\ \A i \in 1..Len(segments) :
           /\ SegLen(segments[i]) >= 1
           /\ segments[i].size >= max_segment_size
    /\ \A c \in DOMAIN inserted :
           /\ Len(inserted[c]) >= 1
           /\ ChunkEntries(dir, c) >= 1
           /\ BytesLen(dir.segment[c]) >= max_segment_size
    /\ (ret.kind = "Ok" /\ ret.sealed) => SegLen(segments[Len(segments)]) >= 1

\* A frozen segment in memory and a chunk written by an eviction.
C34_Witness ==
    /\ segments # <<>>
    /\ DOMAIN inserted # {}
    /\ ret.kind = "Ok"
    /\ ret.sealed

\* CommitLog::next_offset: the number of entries of the active segment is
\* compared with max_segment_size.
NextOffset ==
    IF SegLen(active_segment) >= max_segment_size THEN <<tail + 1, 0>>
    ELSE <<tail, SegLen(active_segment)>>

\* C35: when next_offset returns (s, o), an append that follows and succeeds
\* returns (id, count) with id = s and count - 1 = o.
C35_NextOffsetPredictsAppend ==
    [][(nappends' = nappends + 1 /\ ret'.kind = "Ok") =>
          /\ ret'.id = NextOffset[1]
          /\ ret'.count - 1 = NextOffset[2]]_vars

\* ------------------------------------------------ the files of a new chunk

\* C36: Chunk::new writes the whole segment file before it makes the index
\* file: an index file that an append makes has its segment file beside it,
\* holding the bytes the index file has the hash and the lengths of, and an
\* append that fails in Chunk::new makes no index file.
C36_SegmentFileBeforeIndexFile ==
    [][/\ \A id \in DOMAIN dir'.index \ DOMAIN dir.index :
             /\ id \in DOMAIN dir'.segment
             /\ dir'.index[id].hash = Hash(dir'.segment[id])
             /\ TotalLen(dir'.index[id].entries) = BytesLen(dir'.segment[id])
       /\ ret'.kind = "IoError" => DOMAIN dir'.index = DOMAIN dir.index
       /\ DOMAIN dir.index \subseteq DOMAIN dir'.index
       /\ DOMAIN dir.segment \subseteq DOMAIN dir'.segment]_vars

\* A Chunk::new that failed after it wrote the segment file: the segment file
\* is there without an index file.
C36_Witness ==
    /\ ret.kind = "IoError"
    /\ opened = "empty"
    /\ DOMAIN dir.segment \ DOMAIN dir.index # {}

\* ------------------------------------------- time bounds of the segments

\* C37: in every segment in memory the timestamps do not decrease from one
\* entry to the next and start_time <= end_time; in a segment that holds
\* entries start_time is the timestamp of the first and end_time that of the
\* last, whether append or append_with_timestamp added them.
C37_SegmentTimeBounds ==
    \A seg \in {segments[i] : i \in 1..Len(segments)} \cup {active_segment} :
        /\ \A j \in 1..(SegLen(seg) - 1) : seg.data[j][2] <= seg.data[j + 1][2]
        /\ seg.start_time <= seg.end_time
        /\ SegLen(seg) >= 1 =>
              /\ seg.start_time = seg.data[1][2]
              /\ seg.end_time = seg.data[SegLen(seg)][2]

\* ---------------------------------------------------- memory/segment.rs

\* Segment::read of the in-memory log, at an absolute offset.
MemSegRead(seg, offset) ==
    IF offset < seg.base_offset THEN [kind |-> "None"]
    ELSE IF offset - seg.base_offset < Len(seg.file)
    THEN [kind |-> "Some", val |-> seg.file[offset - seg.base_offset + 1]]
    ELSE [kind |-> "None"]

\* Segment::readv: the records from an absolute offset to the end of the
\* segment (their number is what the call returns).
MemSegReadv(seg, offset) ==
    IF offset < seg.base_offset THEN <<>>
    ELSE IF offset > seg.base_offset + Len(seg.file) THEN <<>>
    ELSE SubSeq(seg.file, offset - seg.base_offset + 1, Len(seg.file))

\* -------------------------------------------------------- memory/mod.rs

\* Most appends to a MemoryLog, and the largest max_segments it is made with.
MaxMemAppends == 6
MaxMemLogSegments == 3

\* A retention that drops the head one segment late.
MemEvictNeeded_Late(len, max) == len > max

\* MemoryLog::apply_retention: backlog + active segment is more than
\* max_segments.
MemEvictNeeded(len, max) == len + 1 > max

\* MemoryLog::read
MemRead(cursor) ==
    IF cursor[1] = tail[1] THEN MemSegRead(active_segment, cursor[2])
    ELSE IF cursor[1] \in DOMAIN segments
    THEN MemSegRead(segments[cursor[1]], cursor[2])
    ELSE [kind |-> "None"]

RECURSIVE MemReadvLoop(_, _)

\* The loop of MemoryLog::readv, after segment.readv(progress.1) gave out for
\* the segment found at progress.0.
MemReadvFrom(progress, out) ==
    IF out # <<>>
    THEN [kind |-> "Some", cursor |-> <<progress[1] + 1, progress[2] + Len(out)>>,
          out |-> out]
    ELSE IF progress[1] = tail[1] THEN [kind |-> "None", out |-> <<>>]
    ELSE MemReadvLoop(<<progress[1] + 1, progress[2]>>, FALSE)

\* The loop of MemoryLog::readv.  Past the tail no id has a segment:
\* progress.0 += 1 goes on to u64::MAX and overflows, which panics, or wraps
\* to 0 in a build without the check and goes on from there (wrapped).
MemReadvLoop(progress, reset_offset) ==
    IF progress[1] \in DOMAIN segments
    THEN MemReadvFrom(
            <<progress[1], IF reset_offset THEN segments[progress[1]].base_offset
                           ELSE progress[2]>>,
            MemSegReadv(segments[progress[1]],
                        IF reset_offset THEN segments[progress[1]].base_offset
                        ELSE progress[2]))
    ELSE IF progress[1] = tail[1]
    THEN MemReadvFrom(<<progress[1], active_segment.base_offset>>,
                      MemSegReadv(active_segment, active_segment.base_offset))
    ELSE IF progress[1] > tail[1]
    THEN [kind |-> "Overflow", out |-> <<>>,
          wrapped |-> MemReadvLoop(<<0, progress[2]>>, TRUE)]
    ELSE MemReadvLoop(<<progress[1] + 1, progress[2]>>, TRUE)

\* MemoryLog::readv, from the cursor or from the head when the cursor is in a
\* deleted segment: [kind, cursor, out]
MemReadv(cursor) ==
    IF (IF cursor[1] < head[1] THEN head ELSE cursor)[1] = tail[1]
    THEN IF MemSegReadv(active_segment,
                        (IF cursor[1] < head[1] THEN head ELSE cursor)[2]) = <<>>
         THEN [kind |-> "None", out |-> <<>>]
         ELSE [kind |-> "Some",
               cursor |-> <<tail[1],
                            (IF cursor[1] < head[1] THEN head ELSE cursor)[2]
                            + Len(MemSegReadv(active_segment,
                                  (IF cursor[1] < head[1] THEN head ELSE cursor)[2]))>>,
               out |-> MemSegReadv(active_segment,
                           (IF cursor[1] < head[1] THEN head ELSE cursor)[2])]
    ELSE MemReadvLoop(IF cursor[1] < head[1] THEN head ELSE cursor, FALSE)

\* MemoryLog::new, and a reader with the cursor (0, 0).
InitMem ==
    /\ max_segment_size = MinSegmentSize
    /\ max_segments \in 0..MaxMemLogSegments
    /\ opened = "none"
    /\ dir = EmptyDir
    /\ disk_handler = NoDiskHandler
    /\ head = <<0, 0>>
    /\ tail = <<0, 0>>
    /\ active_segment = [base_offset |-> 0, size |-> 0, file |-> <<>>]
    /\ segments = <<>>
    /\ segments_size = 0
    /\ clock = 1
    /\ status = "running"
    /\ ret = [kind |-> "None"]
    /\ hist = <<>>
    /\ seals = 0
    /\ evictions = 0
    /\ failed = FALSE
    /\ nappends = 0
    /\ rd = [phase |-> "reading", index |-> 0, offset |-> 0, got |-> <<>>,
             steps |-> 0, last |-> "None"]
    /\ before = [some |-> FALSE, chunks |-> {}, nappends |-> 0]
    /\ inserted = <<>>

\* MemoryLog::append(size, record): apply_retention, then the append to the
\* active segment.  The record is the number of the append.
MemAppend ==
    \E size \in {512, 1100} :
        /\ nappends < MaxMemAppends
        /\ nappends' = nappends + 1
        /\ IF active_segment.size >= max_segment_size
           THEN /\ tail' = <<tail[1] + 1,
                             active_segment.base_offset + Len(active_segment.file)>>
                /\ active_segment' =
                      [base_offset |-> active_segment.base_offset
                                       + Len(active_segment.file),
                       size |-> size, file |-> <<nappends>>]
                /\ seals' = seals + 1
                /\ IF /\ MemEvictNeeded(Cardinality(DOMAIN segments \cup {tail[1]}),
                                         max_segments)
                      /\ head[1] \in DOMAIN segments \cup {tail[1]}
                   THEN /\ segments' =
                              [i \in (DOMAIN segments \cup {tail[1]}) \ {head[1]} |->
                                  IF i = tail[1] THEN active_segment ELSE segments[i]]
                        /\ head' =
                              <<head[1] + 1,
                                IF head[1] = tail[1]
                                THEN active_segment.base_offset
                                     + Len(active_segment.file)
                                ELSE segments[head[1]].base_offset
                                     + Len(segments[head[1]].file)>>
                        /\ evictions' = evictions + 1
                   ELSE /\ segments' =
                              [i \in DOMAIN segments \cup {tail[1]} |->
                                  IF i = tail[1] THEN active_segment ELSE segments[i]]
                        /\ UNCHANGED <<head, evictions>>
           ELSE /\ active_segment' =
                      [active_segment EXCEPT !.size = @ + size,
                                             !.file = Append(@, nappends)]
                /\ UNCHANGED <<head, tail, segments, seals, evictions>>
        /\ ret' = [kind |-> "Ok", id |-> tail'[1],
                   offset |-> active_segment'.base_offset + Len(active_segment'.file)]
        /\ UNCHANGED <<max_segment_size, max_segments, segments_size, disk_handler,
                       dir, opened, clock, status, hist, failed, rd, before,
                       inserted>>

\* The reader calls MemoryLog::readv with the cursor the call before returned
\* and keeps the records; None leaves the cursor where it is.
MemReaderStep ==
    /\ rd.phase = "reading"
    /\ rd' = IF MemReadv(<<rd.index, rd.offset>>).kind = "Some"
             THEN [rd EXCEPT !.index = MemReadv(<<rd.index, rd.offset>>).cursor[1],
                             !.offset = MemReadv(<<rd.index, rd.offset>>).cursor[2],
                             !.got = @ \o MemReadv(<<rd.index, rd.offset>>).out,
                             !.last = "Some"]
             ELSE IF MemReadv(<<rd.index, rd.offset>>).kind = "None"
             THEN [rd EXCEPT !.last = "None"]
             ELSE [rd EXCEPT !.phase = "stopped", !.last = "Overflow"]
    /\ rd' # rd
    /\ UNCHANGED <<head, tail, max_segment_size, max_segments, active_segment,
                   segments, segments_size, disk_handler, dir, opened, clock,
                   status, ret, hist, seals, evictions, failed, nappends, before,
                   inserted>>

NextMem == MemAppend \/ MemReaderStep

\* A MemoryLog with appends and the calls of a reader, in any order.
SpecMem == InitMem /\ [][NextMem]_vars

\* C38: after appends a MemoryLog keeps at most max_segments segments, the
\* active one counted, and drops the oldest first; read gives None for a
\* cursor in a dropped segment, the record for every record of a kept segment,
\* and None at the next offset of the active segment.
C38_MemoryLogRetention ==
    nappends > 0 =>
        /\ Cardinality(DOMAIN segments) + 1 <= max_segments
        /\ DOMAIN segments = head[1]..(tail[1] - 1)
        /\ \A id \in 0..(head[1] - 1), offset \in 0..nappends :
              MemRead(<<id, offset>>) = [kind |-> "None"]
        /\ \A id \in DOMAIN segments : \A k \in 1..Len(segments[id].file) :
              MemRead(<<id, segments[id].base_offset + k - 1>>)
                 = [kind |-> "Some", val |-> segments[id].file[k]]
        /\ \A k \in 1..Len(active_segment.file) :
              MemRead(<<tail[1], active_segment.base_offset + k - 1>>)
                 = [kind |-> "Some", val |-> active_segment.file[k]]
        /\ MemRead(<<tail[1], active_segment.base_offset
                              + Len(active_segment.file)>>) = [kind |-> "None"]

\* C38, amended: the same with at most max_segments segments when
\* max_segments is at least 1, and the active segment alone when it is 0; the
\* kept records are the appended ones from the head offset on, in order.
C38_MemoryLogRetentionAtLeastOne ==
    nappends > 0 =>
        /\ Cardinality(DOMAIN segments) + 1 <= Max(max_segments, 1)
        /\ DOMAIN segments = head[1]..(tail[1] - 1)
        /\ \A id \in 0..(head[1] - 1), offset \in 0..nappends :
              MemRead(<<id, offset>>) = [kind |-> "None"]
        /\ \A id \in DOMAIN segments : \A k \in 1..Len(segments[id].file) :
              /\ MemRead(<<id, segments[id].base_offset + k - 1>>)
                    = [kind |-> "Some", val |-> segments[id].file[k]]
              /\ segments[id].file[k] = segments[id].base_offset + k - 1
              /\ segments[id].base_offset >= head[2]
        /\ \A k \in 1..Len(active_segment.file) :
              /\ MemRead(<<tail[1], active_segment.base_offset + k - 1>>)
                    = [kind |-> "Some", val |-> active_segment.file[k]]
              /\ active_segment.file[k] = active_segment.base_offset + k - 1
        /\ active_segment.base_offset + Len(active_segment.file) = nappends
        /\ MemRead(<<tail[1], active_segment.base_offset
                              + Len(active_segment.file)>>) = [kind |-> "None"]

\* A log of at most two segments that has dropped two and holds two.
C38_Witness ==
    /\ max_segments = 2
    /\ evictions >= 2
    /\ Cardinality(DOMAIN segments) = 1
    /\ Len(active_segment.file) >= 1

\* C39: a reader that passes each cursor readv returns to the next readv,
\* with appends in between, is given every record the log still holds once
\* and in the order of the appends: each call gives the records that follow
\* the last one it gave, or the ones from the head on when those were dropped,
\* with a cursor at the next offset, in the same segment when the records end
\* in the active segment; None is given only when no record is left to give,
\* and every call returns.
C39_MemoryReaderCursor ==
    [][rd' # rd =>
          /\ rd'.phase = "reading"
          /\ rd'.last = "None" =>
                /\ rd'.got = rd.got
                /\ Max(IF rd.got = <<>> THEN 0 ELSE rd.got[Len(rd.got)] + 1,
                       head[2]) >= nappends
          /\ rd'.last = "Some" =>
                /\ Len(rd'.got) > Len(rd.got)
                /\ SubSeq(rd'.got, 1, Len(rd.got)) = rd.got
                /\ rd'.got[Len(rd.got) + 1]
                   = Max(IF rd.got = <<>> THEN 0 ELSE rd.got[Len(rd.got)] + 1,
                         head[2])
                /\ \A j \in (Len(rd.got) + 1)..(Len(rd'.got) - 1) :
                      rd'.got[j + 1] = rd'.got[j] + 1
                /\ rd'.offset = rd'.got[Len(rd'.got)] + 1
                /\ rd'.got[Len(rd'.got)] = nappends - 1 => rd'.index = tail[1]]_vars

\* C40: readv returns Some or None for every cursor, in every state of the
\* log, a cursor whose segment id is greater than the tail segment id
\* included: its segment-skipping loop never runs on past the tail.
C40_MemReadvTerminates ==
    \A id \in 0..(tail[1] + 2) :
        \A offset \in 0..(nappends + 1) :
            MemReadv(<<id, offset>>).kind \in {"Some", "None"}

====
